---- MODULE Spec2Model ----
(***************************************************************************)
(* TracksMartin: the music-service client (src/tracksmartin_api.py).       *)
(*                                                                         *)
(* Spec        one call after another of poll_until_complete against a     *)
(*             backend that answers each status query with any envelope    *)
(*             or with a transport failure.                                *)
(* SubmitSpec  one call of a job-submission operation.                     *)
(* NameSpec    sanitize_filename on every short name.                      *)
(* GenreSpec   LyricsGenerator.get_genre_info on genre names as callers    *)
(*             type them.                                                  *)
(* LyricsSpec  LyricsGenerator.generate_lyrics on replies of the           *)
(*             text-generation service.                                    *)
(* ObjectSpec  construction of the two clients from the environment, and   *)
(*             the requests made through them.                             *)
(***************************************************************************)
EXTENDS Integers, Sequences, FiniteSets, TLC

VARIABLES
    client,        \* the TracksMartinClient object: api_key, base_url, headers
    max_attempts,  \* poll_until_complete: argument
    interval,      \* poll_until_complete: argument
    attempt,       \* poll_until_complete: the loop counter of range(1, max_attempts + 1)
    pc,            \* poll_until_complete: "loop" (top of the for), "slept", "done"
    response,      \* poll_until_complete: the local `response`; nothing reads it
                   \* between one time.sleep and the assignment after it, and
                   \* the model forgets it there
    outcome,       \* how the call ended: "none", "returned", "raised"
    result,        \* the returned value / the raised exception
    trace,         \* the calls made to time.sleep and get_music, in order
    log,           \* history: what each status query of this call brought
    afterTimeout,  \* history: the previous call on this client timed out
    sub,           \* the job-submission call (SubmitSpec)
    fn,            \* the call of a function that keeps no state (NameSpec,
                   \* GenreSpec, LyricsSpec)
    world          \* the process: environment variables, the LyricsGenerator
                   \* object, requests made (ObjectSpec)

pollVars == <<client, max_attempts, interval, attempt, pc, response, outcome,
              result, trace, log, afterTimeout>>
vars == <<client, max_attempts, interval, attempt, pc, response, outcome,
          result, trace, log, afterTimeout, sub, fn, world>>

\* What polling leaves alone, and what job submission leaves alone
notPollVars == <<sub, fn, world>>
notSubVars == <<pollVars, fn, world>>

-----------------------------------------------------------------------------
(* Bounds of the model *)

MaxAttempts == 4
MaxClips == 2

(* Program constants *)

HTTP_OK == 200
DefaultInterval == 15

-----------------------------------------------------------------------------
(* Values *)

\* Python's None, for dict.get on a missing string-valued key
None == "None"

\* The client after __init__ with a credential
TheClient ==
    [api_key  |-> "KEY",
     base_url |-> "https://api.sunoapi.com/api/v1",
     headers  |-> [Authorization |-> <<"Bearer ", "KEY">>,
                   ContentType   |-> "application/json"]]

\* The clip states the backend may report; None: the clip has no 'state' key
ClipStates ==
    {"succeeded", "error", "failed", "queued", "processing", "SUCCEEDED", None}

\* A clip record, as far as polling reads it: clip.get('state')
Clips == [state : ClipStates]

ClipLists == UNION {[1..n -> Clips] : n \in 0..MaxClips}

\* A status envelope: a dict whose keys are `has`; a field outside `has`
\* holds a fixed filler
Envelopes ==
    {e \in [has  : SUBSET {"type", "code", "data"},
            type : {"not_ready", "ready", None},
            code : {HTTP_OK, 500},
            data : ClipLists] :
        /\ ("type" \notin e.has => e.type = None)
        /\ ("type" \in e.has => e.type # None)
        /\ ("code" \notin e.has => e.code = 500)
        /\ ("data" \notin e.has => e.data = <<>>)}

\* `response` before its first assignment
NoResponse == [has |-> {"unassigned"}, type |-> None, code |-> 500, data |->
        <<>>]

\* What the HTTP layer does with one request: a 2xx reply with a JSON body,
\* or a requests.exceptions.RequestException
HttpFailures == {"ConnectionError", "HTTPError"}

\* e.response of a RequestException: absent (None), or a reply whose body
\* parses as JSON or does not; size is the length of the body as the error
\* message would quote it (of str(e.response.json()), or of e.response.text)
NoHttpResponse == [present |-> FALSE, json |-> FALSE, size |-> 0]
HttpResponses(sizes) == [present : {TRUE}, json : BOOLEAN, size : sizes]

\* The failures of one request: no connection (no response), or an error
\* status with a response whose body has one of the sizes
Failures(body, sizes) ==
    [ok : {FALSE}, body : {body}, cause : {"ConnectionError"},
     response : {NoHttpResponse}]
        \cup [ok : {FALSE}, body : {body}, cause : {"HTTPError"},
              response : HttpResponses(sizes)]

StatusReplies ==
    [ok : {TRUE}, body : Envelopes, cause : {None},
     response : {NoHttpResponse}]
        \cup Failures(NoResponse, {1})

Intervals == {1, DefaultInterval}

NoResult == [kind |-> "none"]

-----------------------------------------------------------------------------
(* TracksMartinClient._make_request and get_music *)

\* e.response.text[:500]
TextLimit == 500

Min(a, b) == IF a <= b THEN a ELSE b

\* What the handler appends to the message: nothing without a resp,
\* the parsed JSON body in full, or the first 500 characters of the text
ErrorDetail(resp) ==
    IF ~resp.present THEN <<>>
    ELSE IF resp.json
    THEN <<"\nResponse details: ", [chars |-> resp.size]>>
    ELSE <<"\nResponse text: ", [chars |-> Min(resp.size, TextLimit)]>>

\* try: response.raise_for_status(); return response.json()
\* except RequestException as e: raise SunoAPIError("API request failed: ...")
make_request(reply) ==
    IF reply.ok
    THEN [raised |-> FALSE, value |-> reply.body]
    ELSE [raised |-> TRUE,
          exc |-> [kind |-> "SunoAPIError",
                   msg  |-> <<"API request failed: ", reply.cause>>
                              \o ErrorDetail(reply.response)]]

\* The request's failure is swallowed and an empty envelope returned
get_music_Swallows(reply) ==
    IF reply.ok THEN make_request(reply)
    ELSE [raised |-> FALSE,
          value |-> [has |-> {}, type |-> None, code |-> 500, data |-> <<>>]]

\* return self._make_request("GET", f"suno/task/{task_id}")
get_music(reply) == make_request(reply)

-----------------------------------------------------------------------------
(* TracksMartinClient.poll_until_complete *)

\* response.get('type') == 'not_ready'
IsNotReady(r) == "type" \in r.has /\ r.type = "not_ready"

\* A non-200 code is taken for a failure of the job
IsNotNormal_MissingOnly(r) == "code" \notin r.has \/ "data" \notin r.has

\* response.get('code') != 200 or 'data' not in response
IsNotNormal(r) == ~("code" \in r.has /\ r.code = HTTP_OK) \/ "data" \notin r.has

\* not clips
NoClips(r) == r.data = <<>>

IsSucceeded_WrongLiteral(state) == state = "success"

IsSucceeded_AnyCase(state) == state \in {"succeeded", "SUCCEEDED"}

\* state == "succeeded"
IsSucceeded(state) == state = "succeeded"

IsFailedState_ErrorOnly(state) == state = "error"

\* state in ["error", "failed"]
IsFailedState(state) == state \in {"error", "failed"}

\* The last clip of the list is taken for the first
FirstClip_Last(clips) == clips[Len(clips)]

\* clip = clips[0]
FirstClip(clips) == clips[1]

\* The clip returned is the last of the list
ReturnValue_LastClip(clips) == [kind |-> "clip", clip |-> clips[Len(clips)]]

\* return clip
ReturnValue(clips) == [kind |-> "clip", clip |-> clips[1]]

\* raise SunoAPIError(f"Generation failed with state: {state}")
GenerationFailed(state) ==
    [kind |-> "SunoAPIError", msg |->
            <<"Generation failed with state: ", state>>]

\* raise SunoAPIError(f"Polling timed out after {max_attempts * interval} seconds")
PollingTimedOut(n, secs) ==
    [kind |-> "SunoAPIError",
     msg  |-> <<"Polling timed out after ", n * secs, " seconds">>]

\* The clips are looked at before the not_ready marker
Interpret_ClipsFirst(r) ==
    IF ~IsNotNormal(r) /\ ~NoClips(r)
          /\ (IsSucceeded(r.data[1].state) \/ IsFailedState(r.data[1].state))
    THEN IF IsSucceeded(r.data[1].state)
         THEN [do |-> "return", value |-> ReturnValue(r.data)]
         ELSE [do |-> "raise", exc |-> GenerationFailed(r.data[1].state)]
    ELSE [do |-> "continue"]

\* The body of one attempt after the query has answered with envelope r:
\* "continue" (next attempt), "return" or "raise"
Interpret(r) ==
    IF IsNotReady(r) THEN [do |-> "continue"]
    ELSE IF IsNotNormal(r) THEN [do |-> "continue"]
    ELSE IF NoClips(r) THEN [do |-> "continue"]
    ELSE LET clips == r.data
             state == FirstClip(clips).state
         IN  IF IsSucceeded(state)
             THEN [do |-> "return", value |-> ReturnValue(clips)]
             ELSE IF IsFailedState(state)
             THEN [do |-> "raise", exc |-> GenerationFailed(state)]
             ELSE [do |-> "continue"]

\* History only: what a status query brought, in the words of the
\* polling rule: the request failed, or its envelope is a Waiting shape, a
\* success (code 200, first clip succeeded) or a failure (code 200, first
\* clip error/failed)
ShapeOf(reply) ==
    IF ~reply.ok THEN "transport"
    ELSE LET r == reply.body
         IN  IF \/ r.type = "not_ready" /\ "type" \in r.has
                \/ "code" \notin r.has
                \/ r.code # 200
                \/ "data" \notin r.has
                \/ Len(r.data) = 0
             THEN "waiting"
             ELSE CASE r.data[1].state = "succeeded" -> "succeeded"
                    [] r.data[1].state \in {"error", "failed"} -> "failed"
                    [] OTHER -> "waiting"

\* The attempt counter lives on across calls
PollBegin_KeepsCounter(m, i) ==
    /\ max_attempts' = m
    /\ interval' = i
    /\ attempt' = attempt
    /\ pc' = "loop"
    /\ response' = NoResponse
    /\ outcome' = "none"
    /\ result' = NoResult
    /\ trace' = <<>>
    /\ log' = <<>>

\* A call of poll_until_complete(task_id, max_attempts, interval) begins:
\* for attempt in range(1, max_attempts + 1)
PollBegin(m, i) ==
    /\ max_attempts' = m
    /\ interval' = i
    /\ attempt' = 1
    /\ pc' = "loop"
    /\ response' = NoResponse
    /\ outcome' = "none"
    /\ result' = NoResult
    /\ trace' = <<>>
    /\ log' = <<>>

\* range(1, max_attempts)
SleepGuard_OffByOne == attempt < max_attempts

\* The loop has a next value: attempt in range(1, max_attempts + 1)
SleepGuard == attempt <= max_attempts

\* Sleeps only between attempts, as get_midi does
Sleep_NotBeforeFirst ==
    /\ pc = "loop"
    /\ SleepGuard
    /\ trace' = IF attempt = 1 THEN trace
                ELSE Append(trace, [ev |-> "sleep", arg |-> interval])
    /\ pc' = "slept"
    /\ response' = NoResponse
    /\ UNCHANGED <<client, max_attempts, interval, attempt, outcome,
                   result, log, afterTimeout, notPollVars>>

\* time.sleep(interval), at the top of the loop body
Sleep ==
    /\ pc = "loop"
    /\ SleepGuard
    /\ trace' = Append(trace, [ev |-> "sleep", arg |-> interval])
    /\ pc' = "slept"
    /\ response' = NoResponse
    /\ UNCHANGED <<client, max_attempts, interval, attempt, outcome,
                   result, log, afterTimeout, notPollVars>>

\* response = self.get_music(task_id), and the rest of the attempt
Query ==
    /\ pc = "slept"
    /\ \E reply \in StatusReplies :
         LET got == get_music(reply)
         IN  /\ trace' = Append(trace, [ev |-> "query", arg |-> attempt])
             /\ log' = Append(log, ShapeOf(reply))
             /\ IF got.raised
                THEN /\ outcome' = "raised"
                     /\ result' = got.exc
                     /\ pc' = "done"
                     /\ UNCHANGED <<response, attempt>>
                ELSE LET step == Interpret(got.value)
                     IN  /\ response' = got.value
                         /\ CASE step.do = "return" ->
                                   /\ outcome' = "returned"
                                   /\ result' = step.value
                                   /\ pc' = "done"
                                   /\ UNCHANGED attempt
                              [] step.do = "raise" ->
                                   /\ outcome' = "raised"
                                   /\ result' = step.exc
                                   /\ pc' = "done"
                                   /\ UNCHANGED attempt
                              [] OTHER ->
                                   /\ attempt' = attempt + 1
                                   /\ pc' = "loop"
                                   /\ UNCHANGED <<outcome, result>>
    /\ UNCHANGED <<client, max_attempts, interval, afterTimeout, notPollVars>>

\* On exhaustion the last response is returned, as get_midi does
Timeout_ReturnsLastResponse ==
    /\ pc = "loop"
    /\ ~SleepGuard
    /\ outcome' = "returned"
    /\ result' = [kind |-> "response", response |-> response]
    /\ pc' = "done"
    /\ UNCHANGED <<client, max_attempts, interval, attempt, response, trace,
                   log, afterTimeout, notPollVars>>

\* The loop is exhausted: raise the timeout
Timeout ==
    /\ pc = "loop"
    /\ ~SleepGuard
    /\ outcome' = "raised"
    /\ result' = PollingTimedOut(max_attempts, interval)
    /\ pc' = "done"
    /\ UNCHANGED <<client, max_attempts, interval, attempt, response, trace,
                   log, afterTimeout, notPollVars>>

\* The caller polls again on the same client
PollAgain ==
    /\ pc = "done"
    /\ afterTimeout' = (outcome = "raised" /\ result.msg[1] = "Polling timed out after ")
    /\ \E m \in 0..MaxAttempts, i \in Intervals : PollBegin(m, i)
    /\ UNCHANGED <<client, notPollVars>>

NoSub == [pc |-> "idle"]

\* No function is being called
NoCall == [pc |-> "idle"]

\* The process outside ObjectSpec: the client has been built
NoWorld == [pc |-> "built"]

Init ==
    /\ client = TheClient
    /\ \E m \in 0..MaxAttempts, i \in Intervals :
         /\ max_attempts = m
         /\ interval = i
    /\ attempt = 1
    /\ pc = "loop"
    /\ response = NoResponse
    /\ outcome = "none"
    /\ result = NoResult
    /\ trace = <<>>
    /\ log = <<>>
    /\ afterTimeout = FALSE
    /\ sub = NoSub
    /\ fn = NoCall
    /\ world = NoWorld

Next == Sleep \/ Query \/ Timeout \/ PollAgain

Spec == Init /\ [][Next]_vars

-----------------------------------------------------------------------------
(* The stems command's use of poll_until_complete's result
   (src/tracksmartin.py) *)

\* if isinstance(result, list): clips = result  else: clips = [result]
StemsClips(r) == IF r.kind = "list" THEN r.clips ELSE <<r.clip>>

-----------------------------------------------------------------------------
(* Job submission *)

\* The JSON body of a 2xx reply to a submission
SubmitBodies ==
    {b \in [has     : SUBSET {"task_id", "message"},
            task_id : {"T", None},
            message : {"success", None}] :
        /\ ("task_id" \in b.has) = (b.task_id # None)
        /\ ("message" \in b.has) = (b.message # None)}

NoBody == [has |-> {"unassigned"}, task_id |-> None, message |-> None]

SubmitReplies ==
    [ok : {TRUE}, body : SubmitBodies, cause : {None},
     response : {NoHttpResponse}]
        \cup Failures(NoBody, {1})

NoReply == [ok |-> FALSE, body |-> NoBody, cause |-> None,
            response |-> NoHttpResponse]

NoExc == [kind |-> "none", msg |-> <<>>]

\* Weights in tenths: -0.1, 0.0, 0.5, 1.0, 1.5
WeightTenths == {-1, 0, 5, 10, 15}

\* An Optional[float] argument
OptWeights ==
    {[given |-> FALSE, v |-> 0]} \cup [given : {TRUE}, v : WeightTenths]

\* A call that raised before any request
Refused(kind, msg) ==
    [outcome |-> "raised", exc |-> [kind |-> kind, msg |-> msg],
     value |-> NoBody, requests |-> 0, endpoint |-> None,
     payload |-> <<>>, reply |-> NoReply]

\* self._make_request("POST", endpoint, data=payload), its value or its
\* exception passed on
Post(endpoint, payload, reply) ==
    LET got == make_request(reply)
    IN  [outcome  |-> IF got.raised THEN "raised" ELSE "returned",
         exc      |-> IF got.raised THEN got.exc ELSE NoExc,
         value    |-> IF got.raised THEN NoBody ELSE got.value,
         requests |-> 1,
         endpoint |-> endpoint,
         payload  |-> payload,
         reply    |-> reply]

\* if "task_id" not in response: raise SunoAPIError(f"No task_id in response: ...")
RequireTaskId(call) ==
    IF call.outcome = "returned" /\ "task_id" \notin call.value.has
    THEN [call EXCEPT !.outcome = "raised",
                      !.exc = [kind |-> "SunoAPIError",
                               msg  |->
                                       <<"No task_id in response: ", call.value>>],
                      !.value = NoBody]
    ELSE call

\* A dict built from a base and the optional entries that are given
Dict(pairs) ==
    [k \in {q[1] : q \in pairs} |-> (CHOOSE q \in pairs : q[1] = k)[2]]

\* `if title:` and the like: the value is given and not empty
Truthy(v) == v # None /\ v # ""

CreateMusicArgs ==
    [prompt : {"la la"}, title : {None, "Song"}, tags : {None, "pop"},
     style_weight : OptWeights, weirdness_constraint : OptWeights,
     negative_tags : {None}, custom_mode : {TRUE},
     make_instrumental : BOOLEAN, mv : {"chirp-v5"}]

create_music_payload(a) ==
    Dict({<<"custom_mode", a.custom_mode>>,
          <<"make_instrumental", a.make_instrumental>>,
          <<"mv", a.mv>>}
         \cup (IF a.make_instrumental
               THEN {<<"gpt_description_prompt", a.prompt>>}
               ELSE {<<"prompt", a.prompt>>})
         \cup (IF Truthy(a.title) THEN {<<"title", a.title>>} ELSE {})
         \cup (IF Truthy(a.tags) THEN {<<"tags", a.tags>>} ELSE {})
         \cup (IF a.style_weight.given
               THEN {<<"style_weight", a.style_weight.v>>} ELSE {})
         \cup (IF a.weirdness_constraint.given
               THEN {<<"weirdness_constraint", a.weirdness_constraint.v>>}
               ELSE {})
         \cup (IF Truthy(a.negative_tags)
               THEN {<<"negative_tags", a.negative_tags>>} ELSE {}))

create_music(a, reply) ==
    RequireTaskId(Post("suno/create", create_music_payload(a), reply))

DescriptionArgs ==
    [gpt_description_prompt : {"happy song"}, make_instrumental : BOOLEAN,
     mv : {"chirp-v5"}]

create_music_with_description(a, reply) ==
    RequireTaskId(
        Post("suno/create",
             Dict({<<"custom_mode", FALSE>>,
                   <<"gpt_description_prompt", a.gpt_description_prompt>>,
                   <<"make_instrumental", a.make_instrumental>>,
                   <<"mv", a.mv>>}),
             reply))

ExtendArgs ==
    [continue_clip_id : {"clip"}, prompt : {"", "more"}, continue_at : {0, 30},
     tags : {None, "pop"}, title : {None, "Song"}, custom_mode : {TRUE},
     mv : {"chirp-v5"}]

extend_music(a, reply) ==
    Post("suno/create",
         Dict({<<"task_type", "extend_music">>,
               <<"continue_clip_id", a.continue_clip_id>>,
               <<"continue_at", a.continue_at>>,
               <<"custom_mode", a.custom_mode>>,
               <<"mv", a.mv>>}
              \cup (IF Truthy(a.prompt) THEN {<<"prompt", a.prompt>>} ELSE {})
              \cup (IF Truthy(a.tags) THEN {<<"tags", a.tags>>} ELSE {})
              \cup (IF Truthy(a.title) THEN {<<"title", a.title>>} ELSE {})),
         reply)

ClipArgs == [continue_clip_id : {"clip"}]

concat_music(a, reply) ==
    Post("suno/create",
         Dict({<<"task_type", "concat_music">>,
               <<"continue_clip_id", a.continue_clip_id>>}),
         reply)

CoverArgs ==
    [continue_clip_id : {"clip"}, prompt : {None, "new"}, title : {None, "Song"},
     tags : {None, "pop"}, custom_mode : {TRUE}, mv : {"chirp-v5"}]

cover_music(a, reply) ==
    Post("suno/create",
         Dict({<<"task_type", "cover_music">>,
               <<"custom_mode", a.custom_mode>>,
               <<"continue_clip_id", a.continue_clip_id>>,
               <<"mv", a.mv>>}
              \cup (IF Truthy(a.prompt) THEN {<<"prompt", a.prompt>>} ELSE {})
              \cup (IF Truthy(a.title) THEN {<<"title", a.title>>} ELSE {})
              \cup (IF Truthy(a.tags) THEN {<<"tags", a.tags>>} ELSE {})),
         reply)

ModelVersions == {"chirp-v3-5", "chirp-v4", "chirp-v4-5-plus", "chirp-v5"}

RemasterArgs ==
    [clip_id : {"clip"},
     variation_category : {"subtle", "normal", "high", "extreme"},
     mv : ModelVersions]

\* valid_variations = ["subtle", "normal", "high"]
RemasterVariations == {"subtle", "normal", "high"}

\* valid_models = ["chirp-v4", "chirp-v4-5-plus", "chirp-v5"]
RemasterModels == {"chirp-v4", "chirp-v4-5-plus", "chirp-v5"}

remaster(a, reply) ==
    IF a.variation_category \notin RemasterVariations
    THEN Refused("ValueError", <<"variation_category must be one of ",
                                 a.variation_category>>)
    ELSE IF a.mv \notin RemasterModels
    THEN Refused("ValueError", <<"Model must be one of ", a.mv>>)
    ELSE Post("suno/create",
              Dict({<<"task_type", "remaster">>,
                    <<"continue_clip_id", a.clip_id>>,
                    <<"variation_category", a.variation_category>>,
                    <<"mv", a.mv>>}),
              reply)

AddVocalArgs ==
    [clip_id : {"clip"}, prompt : {"la la"}, start_time : -1..1, end_time : 0..2,
     tags : {None, "pop"}, style_weight : WeightTenths,
     weirdness_constraint : WeightTenths, audio_weight : WeightTenths,
     vocal_gender : {"f", "m", "x"},
     mv : {"chirp-v4", "chirp-v4-5-plus", "chirp-v5"}]

\* The bounds are taken as exclusive
BadWeight_Exclusive(v) == ~(0 < v /\ v < 10)

\* not 0 <= value <= 1, the value in tenths
BadWeight(v) == ~(0 <= v /\ v <= 10)

\* The list of remaster is used
AddVocalModels_OfRemaster == {"chirp-v4", "chirp-v4-5-plus", "chirp-v5"}

\* valid_models = ["chirp-v4-5-plus", "chirp-v5"]
AddVocalModels == {"chirp-v4-5-plus", "chirp-v5"}

\* An empty range is let through
EndNotAfterStart_Strict(start, end) == end < start

\* end_time <= start_time
EndNotAfterStart(start, end) == end <= start

add_vocal(a, reply) ==
    IF a.vocal_gender \notin {"f", "m"}
    THEN Refused("ValueError", <<"vocal_gender must be 'f' (female) or 'm' (male)",
                                 a.vocal_gender>>)
    ELSE IF a.mv \notin AddVocalModels
    THEN Refused("ValueError", <<"Model must be one of ", a.mv>>)
    ELSE IF BadWeight(a.style_weight)
    THEN Refused("ValueError", <<"style_weight", " must be between 0.0 and 1.0">>)
    ELSE IF BadWeight(a.weirdness_constraint)
    THEN Refused("ValueError",
                 <<"weirdness_constraint", " must be between 0.0 and 1.0">>)
    ELSE IF BadWeight(a.audio_weight)
    THEN Refused("ValueError", <<"audio_weight", " must be between 0.0 and 1.0">>)
    ELSE IF a.start_time < 0
    THEN Refused("ValueError", <<"start_time must be >= 0">>)
    ELSE IF EndNotAfterStart(a.start_time, a.end_time)
    THEN Refused("ValueError", <<"end_time must be greater than start_time">>)
    ELSE Post("suno/create",
              Dict({<<"task_type", "add_vocals">>,
                    <<"continue_clip_id", a.clip_id>>,
                    <<"mv", a.mv>>,
                    <<"custom_mode", TRUE>>,
                    <<"prompt", a.prompt>>,
                    <<"style_weight", a.style_weight>>,
                    <<"weirdness_constraint", a.weirdness_constraint>>,
                    <<"audio_weight", a.audio_weight>>,
                    <<"overpainting_start_s", a.start_time>>,
                    <<"overpainting_end_s", a.end_time>>,
                    <<"vocal_gender", a.vocal_gender>>}
                   \cup (IF Truthy(a.tags) THEN {<<"tags", a.tags>>} ELSE {})),
              reply)

StemsArgs == [clip_id : {"clip"}]

stems_basic(a, reply) ==
    Post("suno/stems/basic", Dict({<<"clip_id", a.clip_id>>}), reply)

stems_full(a, reply) ==
    Post("suno/stems/full", Dict({<<"clip_id", a.clip_id>>}), reply)

PersonaMusicArgs ==
    [persona_id : {"persona"}, prompt : {"la la"}, title : {None, "Song"},
     tags : {None, "pop"}, custom_mode : {TRUE}, mv : {"chirp-v5"}]

create_music_with_persona(a, reply) ==
    Post("suno/create",
         Dict({<<"task_type", "persona_music">>,
               <<"persona_id", a.persona_id>>,
               <<"prompt", a.prompt>>,
               <<"custom_mode", a.custom_mode>>,
               <<"mv", a.mv>>}
              \cup (IF Truthy(a.title) THEN {<<"title", a.title>>} ELSE {})
              \cup (IF Truthy(a.tags) THEN {<<"tags", a.tags>>} ELSE {})),
         reply)

\* The caller's call of one operation has ended
Called(op, a, call) == [pc |-> "done", op |-> op, args |-> a, call |-> call]

CreateMusic ==
    /\ sub.pc = "idle"
    /\ \E a \in CreateMusicArgs, reply \in SubmitReplies :
         sub' = Called("create_music", a, create_music(a, reply))
    /\ UNCHANGED notSubVars

CreateMusicWithDescription ==
    /\ sub.pc = "idle"
    /\ \E a \in DescriptionArgs, reply \in SubmitReplies :
         sub' = Called("create_music_with_description", a,
                       create_music_with_description(a, reply))
    /\ UNCHANGED notSubVars

ExtendMusic ==
    /\ sub.pc = "idle"
    /\ \E a \in ExtendArgs, reply \in SubmitReplies :
         sub' = Called("extend_music", a, extend_music(a, reply))
    /\ UNCHANGED notSubVars

ConcatMusic ==
    /\ sub.pc = "idle"
    /\ \E a \in ClipArgs, reply \in SubmitReplies :
         sub' = Called("concat_music", a, concat_music(a, reply))
    /\ UNCHANGED notSubVars

CoverMusic ==
    /\ sub.pc = "idle"
    /\ \E a \in CoverArgs, reply \in SubmitReplies :
         sub' = Called("cover_music", a, cover_music(a, reply))
    /\ UNCHANGED notSubVars

Remaster ==
    /\ sub.pc = "idle"
    /\ \E a \in RemasterArgs, reply \in SubmitReplies :
         sub' = Called("remaster", a, remaster(a, reply))
    /\ UNCHANGED notSubVars

AddVocal ==
    /\ sub.pc = "idle"
    /\ \E a \in AddVocalArgs, reply \in SubmitReplies :
         sub' = Called("add_vocal", a, add_vocal(a, reply))
    /\ UNCHANGED notSubVars

StemsBasic ==
    /\ sub.pc = "idle"
    /\ \E a \in StemsArgs, reply \in SubmitReplies :
         sub' = Called("stems_basic", a, stems_basic(a, reply))
    /\ UNCHANGED notSubVars

StemsFull ==
    /\ sub.pc = "idle"
    /\ \E a \in StemsArgs, reply \in SubmitReplies :
         sub' = Called("stems_full", a, stems_full(a, reply))
    /\ UNCHANGED notSubVars

CreateMusicWithPersona ==
    /\ sub.pc = "idle"
    /\ \E a \in PersonaMusicArgs, reply \in SubmitReplies :
         sub' = Called("create_music_with_persona", a,
                       create_music_with_persona(a, reply))
    /\ UNCHANGED notSubVars

\* The caller is ready for its next call
SubmitAgain ==
    /\ sub.pc = "done"
    /\ sub' = NoSub
    /\ UNCHANGED notSubVars

InitSubmit ==
    /\ client = TheClient
    /\ max_attempts = 0
    /\ interval = DefaultInterval
    /\ attempt = 1
    /\ pc = "loop"
    /\ response = NoResponse
    /\ outcome = "none"
    /\ result = NoResult
    /\ trace = <<>>
    /\ log = <<>>
    /\ afterTimeout = FALSE
    /\ sub = NoSub
    /\ fn = NoCall
    /\ world = NoWorld

NextSubmit ==
    \/ CreateMusic
    \/ CreateMusicWithDescription
    \/ ExtendMusic
    \/ ConcatMusic
    \/ CoverMusic
    \/ Remaster
    \/ AddVocal
    \/ StemsBasic
    \/ StemsFull
    \/ CreateMusicWithPersona
    \/ SubmitAgain

SubmitSpec == InitSubmit /\ [][NextSubmit]_vars

-----------------------------------------------------------------------------
(* poll_until_complete: what its caller and the backend observe *)

Sleeps == Cardinality({i \in DOMAIN trace : trace[i].ev = "sleep"})

Queries == Cardinality({i \in DOMAIN trace : trace[i].ev = "query"})

AllWaiting(n) == \A i \in 1..n : log[i] = "waiting"

\* The last thing the call did was a status query that answered with an envelope
Examined ==
    /\ trace # <<>>
    /\ trace[Len(trace)].ev = "query"
    /\ log[Len(log)] # "transport"

TimedOut ==
    /\ pc = "done"
    /\ outcome = "raised"
    /\ result = [kind |-> "SunoAPIError",
                 msg  |-> <<"Polling timed out after ", max_attempts * interval,
                            " seconds">>]

\* The attempt ended in `continue`: the call is at the top of the loop for
\* the next attempt, or that was the last attempt and the call timed out
KeptPolling ==
    \/ /\ pc = "loop"
       /\ outcome = "none"
       /\ attempt = Queries + 1
    \/ /\ TimedOut
       /\ Queries = max_attempts

\* C1: every status query is immediately preceded by exactly one sleep of
\* `interval` seconds, the first one included, and the sleeps performed are
\* as many as the queries issued, or one more (the attempt in progress).
C1_SleepBeforeEachQuery ==
    /\ \A i \in DOMAIN trace :
         trace[i].ev = "query" =>
            /\ i > 1
            /\ trace[i - 1] = [ev |-> "sleep", arg |-> interval]
    /\ \A i \in DOMAIN trace :
         (trace[i].ev = "sleep" /\ i > 1) => trace[i - 1].ev = "query"
    /\ Sleeps - Queries \in {0, 1}
    /\ (pc = "slept") = (Sleeps = Queries + 1)

C1_Witness == Queries >= 3 /\ pc = "slept"

\* C2: when the attempts 1..k-1 bring Waiting shapes and attempt k brings
\* code 200 with a first clip "succeeded", the call returns that clip at
\* attempt k, after exactly k sleeps and k status queries.
C2_ReturnsAtFirstSuccess ==
    \A k \in DOMAIN log :
       (AllWaiting(k - 1) /\ log[k] = "succeeded") =>
          /\ k = Len(log)
          /\ k <= max_attempts
          /\ pc = "done"
          /\ outcome = "returned"
          /\ response.data[1].state = "succeeded"
          /\ result = [kind |-> "clip", clip |-> response.data[1]]
          /\ Sleeps = k
          /\ Queries = k

C2_Witness ==
    /\ log = <<"waiting", "waiting", "waiting", "succeeded">>
    /\ outcome = "returned"
    /\ Sleeps = 4

\* C3: an envelope with code 200 whose first clip is "error" or "failed"
\* makes the call raise SunoAPIError with the observed state in its message,
\* and nothing is slept or queried after that attempt.
C3_FailureRaisesAtOnce ==
    \A k \in DOMAIN log :
       log[k] = "failed" =>
          /\ k = Len(log)
          /\ pc = "done"
          /\ outcome = "raised"
          /\ response.data[1].state \in {"error", "failed"}
          /\ result = [kind |-> "SunoAPIError",
                       msg  |-> <<"Generation failed with state: ",
                                  response.data[1].state>>]
          /\ Sleeps = k
          /\ Queries = k

C3_Witness ==
    /\ log = <<"failed">>
    /\ response.data[1].state = "failed"
    /\ max_attempts > 1
    /\ outcome = "raised"

\* C4: when none of the max_attempts attempts brings a first clip in state
\* succeeded, error or failed, the call has slept and queried exactly
\* max_attempts times, all that is left to it is to raise the timeout, and
\* the timeout it raises reports max_attempts * interval seconds; a timeout
\* is raised in no other case.
C4_TimeoutAfterBudget ==
    /\ (Len(log) = max_attempts /\ AllWaiting(max_attempts)) =>
          /\ Sleeps = max_attempts
          /\ Queries = max_attempts
          /\ \/ pc = "loop" /\ ENABLED Timeout /\ ~ENABLED Sleep
             \/ TimedOut
    /\ (pc = "done" /\ outcome = "raised"
          /\ result.msg[1] = "Polling timed out after ") =>
          /\ TimedOut
          /\ Len(log) = max_attempts
          /\ AllWaiting(max_attempts)
          /\ Sleeps = max_attempts
          /\ Queries = max_attempts

C4_Witness ==
    /\ TimedOut
    /\ max_attempts = 3
    /\ interval = 15
    /\ result.msg[2] = 45
    /\ Sleeps = 3

\* C5: an envelope that is not_ready, or whose code is not 200, or that
\* lacks data, or whose data is empty, never ends the call at that attempt
\* with a result or a failure: the call goes on to the next attempt, or
\* times out when that was the last one.
C5_WaitingShapesKeepPolling ==
    (/\ Examined
     /\ \/ ("type" \in response.has /\ response.type = "not_ready")
        \/ "code" \notin response.has
        \/ response.code # 200
        \/ "data" \notin response.has
        \/ Len(response.data) = 0)
    => KeptPolling

C5_Witness ==
    /\ Examined
    /\ "type" \notin response.has
    /\ "code" \in response.has
    /\ response.code = 500
    /\ Len(response.data) > 0
    /\ response.data[1].state = "error"
    /\ TimedOut
    /\ max_attempts > 1

\* C6: of the values of the first clip's state, exactly "succeeded",
\* "error" and "failed" end the polling; with any other value (another
\* label, another case, no state at all) the call goes on polling.
C6_OnlyThreeStatesEnd ==
    (/\ Examined
     /\ ~("type" \in response.has /\ response.type = "not_ready")
     /\ "code" \in response.has
     /\ response.code = 200
     /\ "data" \in response.has
     /\ Len(response.data) > 0)
    => IF response.data[1].state \in {"succeeded", "error", "failed"}
       THEN pc = "done" /\ ~TimedOut /\ Queries = Len(log)
       ELSE KeptPolling

C6_Witness ==
    /\ Examined
    /\ "type" \notin response.has
    /\ "code" \in response.has
    /\ response.code = 200
    /\ "data" \in response.has
    /\ Len(response.data) > 0
    /\ response.data[1].state = "SUCCEEDED"
    /\ pc = "loop"
    /\ attempt = 3

\* C7: when the first clip of a several-clip envelope (a stems job) is
\* "succeeded", the call returns the full list of that envelope's clips, so
\* that the stems command handles every stem.
C7_ReturnsEveryClip ==
    (pc = "done" /\ outcome = "returned" /\ Len(response.data) > 1) =>
       /\ result.kind = "list"
       /\ StemsClips(result) = response.data

\* C8: a status request that fails with a transport error ends the call
\* with that SunoAPIError at once: nothing is slept or queried after it,
\* whatever is left of the budget.
C8_TransportErrorPropagates ==
    \A k \in DOMAIN log :
       log[k] = "transport" =>
          /\ k = Len(log)
          /\ pc = "done"
          /\ outcome = "raised"
          /\ result.kind = "SunoAPIError"
          /\ result.msg[1] = "API request failed: "
          /\ result.msg[2] \in HttpFailures
          /\ Sleeps = k
          /\ Queries = k

C8_Witness ==
    /\ log = <<"waiting", "transport">>
    /\ max_attempts = 4
    /\ pc = "done"

\* C9: the call leaves the client as it found it, and each call counts its
\* attempts from 1 on its own: a call made after a timeout has its whole
\* budget of max_attempts queries.
C9_NoStateOutlivesTheCall ==
    /\ client = TheClient
    /\ (pc \in {"loop", "slept"}) => attempt = Queries + 1
    /\ (pc = "loop" /\ trace = <<>>) => attempt = 1
    /\ (pc = "done" /\ outcome = "raised"
          /\ result.msg[1] = "Polling timed out after ") =>
          Queries = max_attempts

C9_Witness ==
    /\ afterTimeout
    /\ pc = "done"
    /\ outcome = "returned"
    /\ max_attempts = 3
    /\ Queries = 3

-----------------------------------------------------------------------------
(* Job submission: what its caller observes *)

TaskOperations ==
    {"create_music", "create_music_with_description", "extend_music",
     "concat_music", "cover_music", "remaster", "add_vocal", "stems_basic",
     "stems_full", "create_music_with_persona"}

\* C10: in every operation that returns a task identifier, a successful
\* HTTP response without the task_id field makes the operation raise
\* SunoAPIError, not return the response, and not the ValueError of a
\* refused parameter.
C10_NoTaskIdIsProtocolError ==
    (/\ sub.pc = "done"
     /\ sub.op \in TaskOperations
     /\ sub.call.requests = 1
     /\ sub.call.reply.ok
     /\ "task_id" \notin sub.call.reply.body.has)
    => /\ sub.call.outcome = "raised"
       /\ sub.call.exc.kind = "SunoAPIError"

\* The call ended in a ValueError raised before any request
RefusedByValidation ==
    /\ sub.call.outcome = "raised"
    /\ sub.call.exc.kind = "ValueError"
    /\ sub.call.requests = 0

\* C11: remaster raises ValueError when variation_category is not one of
\* subtle, normal, high or mv not one of chirp-v4, chirp-v4-5-plus,
\* chirp-v5; add_vocal raises it when vocal_gender is not f or m or mv not
\* one of chirp-v4-5-plus, chirp-v5; no request is made then, and a call
\* whose parameters are all valid makes exactly one request.
C11_EnumsCheckedBeforeRequest ==
    /\ (sub.pc = "done" /\ sub.op = "remaster") =>
          IF \/ sub.args.variation_category \notin {"subtle", "normal", "high"}
             \/ sub.args.mv \notin {"chirp-v4", "chirp-v4-5-plus", "chirp-v5"}
          THEN RefusedByValidation
          ELSE sub.call.requests = 1
    /\ (sub.pc = "done" /\ sub.op = "add_vocal") =>
          /\ (\/ sub.args.vocal_gender \notin {"f", "m"}
              \/ sub.args.mv \notin {"chirp-v4-5-plus", "chirp-v5"})
                => RefusedByValidation
          /\ (/\ sub.args.vocal_gender \in {"f", "m"}
              /\ sub.args.mv \in {"chirp-v4-5-plus", "chirp-v5"}
              /\ \A w \in {sub.args.style_weight, sub.args.weirdness_constraint,
                           sub.args.audio_weight} : 0 <= w /\ w <= 10
              /\ 0 <= sub.args.start_time
              /\ sub.args.start_time < sub.args.end_time)
                => sub.call.requests = 1

C11_Witness ==
    /\ sub.pc = "done"
    /\ sub.op = "add_vocal"
    /\ sub.args.vocal_gender = "m"
    /\ sub.args.mv = "chirp-v4"
    /\ sub.args.style_weight = 5
    /\ sub.args.start_time = 0
    /\ sub.args.end_time = 1
    /\ RefusedByValidation

\* C12: add_vocal accepts style_weight, weirdness_constraint and
\* audio_weight exactly when each is in [0.0, 1.0], both ends included: with
\* one of them outside (1.5, a negative value) it raises ValueError before
\* any request, and with 0.0 or 1.0 it does not.
C12_WeightsWithinUnitInterval ==
    (/\ sub.pc = "done"
     /\ sub.op = "add_vocal"
     /\ sub.args.vocal_gender \in {"f", "m"}
     /\ sub.args.mv \in {"chirp-v4-5-plus", "chirp-v5"})
    => LET weights == {sub.args.style_weight, sub.args.weirdness_constraint,
                       sub.args.audio_weight}
           refused == /\ RefusedByValidation
                      /\ Len(sub.call.exc.msg) = 2
                      /\ sub.call.exc.msg[2] = " must be between 0.0 and 1.0"
       IN  refused = (\E w \in weights : w < 0 \/ w > 10)

C12_Witness ==
    /\ sub.pc = "done"
    /\ sub.op = "add_vocal"
    /\ sub.args.style_weight = 0
    /\ sub.args.weirdness_constraint = 10
    /\ sub.args.audio_weight = 10
    /\ sub.call.requests = 1
    /\ sub.call.outcome = "returned"

\* C13: create_music raises a validation error, and sends no request, when
\* a style_weight or weirdness_constraint is given outside [0.0, 1.0].
C13_CreateMusicChecksWeights ==
    (/\ sub.pc = "done"
     /\ sub.op = "create_music"
     /\ \/ sub.args.style_weight.given
           /\ (sub.args.style_weight.v < 0 \/ sub.args.style_weight.v > 10)
        \/ sub.args.weirdness_constraint.given
           /\ (sub.args.weirdness_constraint.v < 0
                 \/ sub.args.weirdness_constraint.v > 10))
    => RefusedByValidation

\* C14: add_vocal accepts its time range exactly when
\* end_time > start_time >= 0: otherwise it raises ValueError before any
\* request; start_time = 0 with end_time = 1 is accepted.
C14_TimeRangeChecked ==
    (/\ sub.pc = "done"
     /\ sub.op = "add_vocal"
     /\ sub.args.vocal_gender \in {"f", "m"}
     /\ sub.args.mv \in {"chirp-v4-5-plus", "chirp-v5"}
     /\ \A w \in {sub.args.style_weight, sub.args.weirdness_constraint,
                  sub.args.audio_weight} : 0 <= w /\ w <= 10)
    => IF sub.args.start_time >= 0 /\ sub.args.end_time > sub.args.start_time
       THEN sub.call.requests = 1 /\ sub.call.exc.kind # "ValueError"
       ELSE RefusedByValidation

C14_Witness ==
    /\ sub.pc = "done"
    /\ sub.op = "add_vocal"
    /\ sub.args.start_time = 0
    /\ sub.args.end_time = 1
    /\ sub.call.requests = 1
    /\ sub.call.outcome = "returned"


(***************************************************************************)
(* Strings.  A Python str is the sequence of its symbols.  A symbol is one *)
(* character; in the replies of the text-generation service the markers    *)
(* "TITLE:" and "TAGS:" are one symbol each.  The str methods the program  *)
(* calls are computed on the sequence.                                     *)
(***************************************************************************)
Lowercase == <<"a", "b", "c", "d", "e", "f", "g", "h", "i", "j", "k", "l", "m",
               "n", "o", "p", "q", "r", "s", "t", "u", "v", "w", "x", "y", "z">>
Uppercase == <<"A", "B", "C", "D", "E", "F", "G", "H", "I", "J", "K", "L", "M",
               "N", "O", "P", "Q", "R", "S", "T", "U", "V", "W", "X", "Y", "Z">>
Digits == {"0", "1", "2", "3", "4", "5", "6", "7", "8", "9"}
Whitespace == {" ", "\t", "\n", "\r"}

Range(seq) == {seq[i] : i \in DOMAIN seq}
IndexOf(seq, c) == CHOOSE i \in DOMAIN seq : seq[i] = c

\* str.isalpha, str.isalnum of one character
isalpha(c) == c \in Range(Lowercase) \cup Range(Uppercase)
isalnum(c) == isalpha(c) \/ c \in Digits

\* str.lower, str.upper of one character
lower_char(c) ==
    IF c \in Range(Uppercase) THEN Lowercase[IndexOf(Uppercase, c)] ELSE c
upper_char(c) ==
    IF c \in Range(Lowercase) THEN Uppercase[IndexOf(Lowercase, c)] ELSE c

\* str.lower, str.upper
lower(s) == [i \in DOMAIN s |-> lower_char(s[i])]
upper(s) == [i \in DOMAIN s |-> upper_char(s[i])]

\* str.title: a letter that follows a letter is lowered, any other letter
\* is raised
title(s) ==
    [i \in DOMAIN s |->
        IF i > 1 /\ isalpha(s[i - 1]) THEN lower_char(s[i])
        ELSE upper_char(s[i])]

\* str.strip as a caller that forgot it: the string as it is
strip_Forgotten(s) == s

\* str.strip: without the whitespace at both ends
strip(s) ==
    LET inked == {i \in DOMAIN s : s[i] \notin Whitespace}
    IN  IF inked = {} THEN <<>>
        ELSE SubSeq(s, CHOOSE i \in inked : \A j \in inked : i <= j,
                       CHOOSE i \in inked : \A j \in inked : j <= i)


(***************************************************************************)
(* LyricsGenerator.get_genre_info (src/lyrics_generator.py).               *)
(***************************************************************************)

\* A str literal, and an f-string with one {value} in it
Text(text) == [before |-> text, value |-> <<>>, after |-> ""]
FString(before, value, after) ==
    [before |-> before, value |-> value, after |-> after]

\* The catalog of genre templates, by genre name (the dash U+2014 of three
\* style notes is written -- here)
GENRE_TEMPLATES ==
    (<<"p", "o", "p">> :>
       [structure |-> "Verse 1, Pre-Chorus, Chorus, Verse 2, Pre-Chorus, Chorus, Bridge, Chorus (repeat)",
        characteristics |-> <<
             "Catchy, repetitive hooks",
             "Simple, relatable themes (love, relationships, self-empowerment)",
             "3-4 minute length with radio-friendly structure",
             "Emphasis on memorable chorus with singalong quality",
             "Conversational, accessible language",
             "Strong rhythm and cadence for danceability">>,
        style_notes |-> Text(
             "Modern pop focuses on immediate emotional connection. Use simple vocabulary, repetition for emphasis, and ensure the chorus is instantly memorable. Themes should be universal and aspirational.")])
    @@
    (<<"r", "o", "c", "k">> :>
       [structure |-> "Intro, Verse 1, Chorus, Verse 2, Chorus, Guitar Solo/Bridge, Chorus, Outro",
        characteristics |-> <<
             "Powerful, rebellious, or introspective themes",
             "Strong imagery and metaphors",
             "Emphasis on energy and emotional intensity",
             "Guitar-centric arrangements (leave space for solos)",
             "Verses build tension, chorus releases it",
             "Raw, authentic emotional expression">>,
        style_notes |-> Text(
             "Rock lyrics should have attitude and edge. Use vivid imagery, avoid being too polite. Themes of freedom, struggle, defiance, or deep emotion work well. Build momentum throughout the song.")])
    @@
    (<<"h", "i", "p", "-", "h", "o", "p">> :>
       [structure |-> "Intro, Verse 1, Hook, Verse 2, Hook, Verse 3, Hook, Outro",
        characteristics |-> <<
             "Complex wordplay, metaphors, and double meanings",
             "Strong rhythmic flow with attention to syllable count",
             "Internal rhyme schemes (AABB, multis, slant rhymes)",
             "Storytelling or braggadocious themes",
             "Cultural references and authenticity",
             "Punchlines and quotable bars">>,
        style_notes |-> Text(
             "Hip-hop demands technical skill. Focus on rhythm, rhyme density, and clever wordplay. Each bar should have purpose. The hook should be catchy but the verses carry the weight. Authenticity and originality are crucial.")])
    @@
    (<<"c", "o", "u", "n", "t", "r", "y">> :>
       [structure |-> "Verse 1, Chorus, Verse 2, Chorus, Bridge, Chorus",
        characteristics |-> <<
             "Storytelling with clear narrative arc",
             "Relatable, down-to-earth imagery",
             "Themes: heartbreak, home, family, rural life, patriotism",
             "Use of specific details (truck models, place names, etc.)",
             "Conversational, honest tone",
             "Often uses second-person 'you' addressing">>,
        style_notes |-> Text(
             "Country lyrics tell stories with heart. Use specific, concrete details rather than abstractions. The narrative should feel like a real person's experience. Emotional honesty over complexity.")])
    @@
    (<<"r", "&", "b">> :>
       [structure |-> "Intro, Verse 1, Pre-Chorus, Chorus, Verse 2, Pre-Chorus, Chorus, Bridge, Chorus (with ad-libs)",
        characteristics |-> <<
             "Smooth, sensual romantic themes",
             "Vocal runs and melisma opportunities (oh, yeah, baby)",
             "Emotional vulnerability and intimacy",
             "Sophisticated melodic phrasing",
             "Second-person perspective (singing to lover)",
             "Metaphors for love and desire">>,
        style_notes |-> Text(
             "R&B is about feeling and groove. Write lyrics that leave space for vocal expression. Use sensory language. Themes should be emotionally intimate. The melody should flow naturally.")])
    @@
    (<<"j", "a", "z", "z">> :>
       [structure |-> "Flexible - often AABA or verse-chorus, with instrumental breaks",
        characteristics |-> <<
             "Sophisticated vocabulary and wordplay",
             "Complex emotional themes (bittersweet, nostalgic)",
             "Conversational, sometimes improvisational feel",
             "Classic themes: love, loss, city life, nightlife",
             "Poetic imagery and metaphor",
             "Timeless, elegant phrasing">>,
        style_notes |-> Text(
             "Jazz lyrics are literary. Use elevated language, clever turns of phrase, and subtle emotion. Classic jazz standards had sophistication--channel Cole Porter, Ella Fitzgerald era. Quality over quantity.")])
    @@
    (<<"b", "l", "u", "e", "s">> :>
       [structure |-> "12-bar blues pattern (AAB structure in lyrics)",
        characteristics |-> <<
             "Themes of hardship, heartbreak, struggle, resilience",
             "Call-and-response patterns",
             "Repetition of first line, then response",
             "Raw, honest emotional expression",
             "Use of blue notes and wailing spaces",
             "Personal testimony and life experience">>,
        style_notes |-> Text(
             "Blues lyrics are about struggle and survival. Use the classic AAB structure (repeat first line, then answer/resolve). Keep it real and raw. The emotion should feel lived-in and authentic.")])
    @@
    (<<"e", "l", "e", "c", "t", "r", "o", "n", "i", "c">> :>
       [structure |-> "Minimal vocals, repetitive hooks, emphasis on drops and builds",
        characteristics |-> <<
             "Sparse, repetitive lyrics",
             "Emphasis on rhythm and phonetics over meaning",
             "Euphoric or introspective themes",
             "Club/party atmosphere or existential reflection",
             "Vocal chops and repeated phrases",
             "Space for instrumental drops">>,
        style_notes |-> Text(
             "Electronic music lyrics are minimal and atmospheric. Focus on a few powerful phrases that repeat and build. Think about how the voice becomes an instrument. Less is more.")])
    @@
    (<<"f", "o", "l", "k">> :>
       [structure |-> "Verse 1, Chorus, Verse 2, Chorus, Verse 3, Chorus",
        characteristics |-> <<
             "Narrative storytelling with moral or message",
             "Acoustic, organic feel",
             "Historical or traditional themes",
             "Social commentary and authenticity",
             "Simple, memorable melodies",
             "Often multiple verses telling a complete story">>,
        style_notes |-> Text(
             "Folk tells stories that matter. Use clear narrative, specific details, and authentic voice. Themes of community, history, and human experience. The story is paramount--let it unfold naturally.")])
    @@
    (<<"m", "e", "t", "a", "l">> :>
       [structure |-> "Intro, Verse 1, Pre-Chorus, Chorus, Verse 2, Pre-Chorus, Chorus, Breakdown, Solo, Chorus, Outro",
        characteristics |-> <<
             "Dark, intense themes (mythology, darkness, struggle, power)",
             "Epic imagery and metaphor",
             "Aggressive, powerful language",
             "Fast-paced delivery or dramatic dynamics",
             "Themes of conflict, darkness, triumph",
             "Technical precision in phrasing">>,
        style_notes |-> Text(
             "Metal demands intensity. Use powerful imagery, epic themes, and uncompromising emotion. Whether it's fantasy, darkness, or social critique, go all-in. The energy should match the music.")])
    @@
    (<<"i", "n", "d", "i", "e">> :>
       [structure |-> "Flexible, often unconventional song structures",
        characteristics |-> <<
             "Introspective, personal themes",
             "Quirky or unconventional perspectives",
             "Literary references and wordplay",
             "Emotional vulnerability with artistic distance",
             "Unique metaphors and imagery",
             "Authenticity over commercial appeal">>,
        style_notes |-> Text(
             "Indie embraces creativity and individuality. Don't be afraid of unconventional structure or esoteric references. Balance vulnerability with artistic craft. Authenticity is key.")])
    @@
    (<<"r", "e", "g", "g", "a", "e">> :>
       [structure |-> "Verse, Chorus, Verse, Chorus, Bridge (often with toasting/rap section), Chorus",
        characteristics |-> <<
             "Positive, uplifting messages or social commentary",
             "Themes: unity, peace, love, social justice, Rastafarian spirituality",
             "Repetitive, rhythmic phrasing for the groove",
             "Call-and-response elements",
             "Patois/Jamaican dialect considerations",
             "One-drop rhythm consciousness">>,
        style_notes |-> Text(
             "Reggae carries a message. Whether spiritual, political, or about love, there's purpose and positivity. The rhythm is crucial--phrase around the one-drop beat. Keep it conscious and uplifting.")])

\* The common variations of genre names, and the name each stands for
genre_mapping ==
    (<<"h", "i", "p", "h", "o", "p">> :> <<"h", "i", "p", "-", "h", "o", "p">>)
    @@ (<<"h", "i", "p", " ", "h", "o", "p">> :>
            <<"h", "i", "p", "-", "h", "o", "p">>)
    @@ (<<"r", "a", "p">> :> <<"h", "i", "p", "-", "h", "o", "p">>)
    @@ (<<"e", "d", "m">> :>
            <<"e", "l", "e", "c", "t", "r", "o", "n", "i", "c">>)
    @@ (<<"d", "a", "n", "c", "e">> :>
            <<"e", "l", "e", "c", "t", "r", "o", "n", "i", "c">>)
    @@ (<<"t", "e", "c", "h", "n", "o">> :>
            <<"e", "l", "e", "c", "t", "r", "o", "n", "i", "c">>)
    @@ (<<"h", "o", "u", "s", "e">> :>
            <<"e", "l", "e", "c", "t", "r", "o", "n", "i", "c">>)
    @@ (<<"r", "n", "b">> :> <<"r", "&", "b">>)
    @@ (<<"r", "h", "y", "t", "h", "m", " ", "a", "n", "d", " ", "b", "l", "u", "e", "s">> :>
            <<"r", "&", "b">>)
    @@ (<<"a", "l", "t", "e", "r", "n", "a", "t", "i", "v", "e">> :>
            <<"i", "n", "d", "i", "e">>)
    @@ (<<"a", "l", "t">> :> <<"i", "n", "d", "i", "e">>)
    @@ (<<"h", "e", "a", "v", "y", " ", "m", "e", "t", "a", "l">> :>
            <<"m", "e", "t", "a", "l">>)
    @@ (<<"d", "e", "a", "t", "h", " ", "m", "e", "t", "a", "l">> :>
            <<"m", "e", "t", "a", "l">>)
    @@ (<<"p", "o", "w", "e", "r", " ", "m", "e", "t", "a", "l">> :>
            <<"m", "e", "t", "a", "l">>)


\* dict.get(key, default)
Get(dict, key, default) == IF key \in DOMAIN dict THEN dict[key] ELSE default

\* The template returned for a genre the catalog does not have
GenericTemplate(note_genre) ==
    [structure |-> "Verse 1, Chorus, Verse 2, Chorus, Bridge, Chorus",
     characteristics |-> <<"Genre-appropriate themes and language",
                           "Clear song structure",
                           "Memorable hooks and phrases">>,
     style_notes |-> FString("Write authentic ", note_genre,
         " lyrics following the genre's conventions and characteristics.")]

\* get_genre_info writing the looked-up name into the generic style note
get_genre_info_NoteNormalized(genre) ==
    LET genre_lower == strip(lower(genre))
        normalized_genre == Get(genre_mapping, genre_lower, genre_lower)
    IN  IF normalized_genre \in DOMAIN GENRE_TEMPLATES
        THEN GENRE_TEMPLATES[normalized_genre]
        ELSE GenericTemplate(genre_lower)

\* get_genre_info(genre)
get_genre_info(genre) ==
    LET genre_lower == strip(lower(genre))
        normalized_genre == Get(genre_mapping, genre_lower, genre_lower)
    IN  IF normalized_genre \in DOMAIN GENRE_TEMPLATES
        THEN GENRE_TEMPLATES[normalized_genre]
        ELSE GenericTemplate(genre)

\* Genre names nobody has a template or a variation for
UnknownGenres ==
    {<<"p", "o", "l", "k", "a">>,
     <<"k", "-", "p", "o", "p">>,
     <<>>,
     <<"h", "i", "p", " ", " ", "h", "o", "p">>,
     <<"r", " ", "&", " ", "b">>,
     <<"m", "e", "t", "a", "l", "c", "o", "r", "e">>}

\* The genre names a caller starts from, and the ways of typing one: in
\* lower case, in capitals or as a title, with whitespace before and after
GenreNames == DOMAIN GENRE_TEMPLATES \cup DOMAIN genre_mapping \cup UnknownGenres
Casings == {"lower", "upper", "title"}
LeftPads == {<<>>, <<" ">>, <<"\t">>}
RightPads == {<<>>, <<" ">>, <<" ", "\n">>}
Typed(name, casing, left, right) ==
    left \o (CASE casing = "lower" -> name
               [] casing = "upper" -> upper(name)
               [] casing = "title" -> title(name)) \o right

\* One call of get_genre_info; name is the genre name the argument was
\* typed from
GetGenreInfo ==
    /\ fn.pc = "idle"
    /\ \E name \in GenreNames, casing \in Casings,
          left \in LeftPads, right \in RightPads :
         LET genre == Typed(name, casing, left, right)
         IN  fn' = [pc |-> "done", op |-> "get_genre_info", name |-> name,
                    args |-> [genre |-> genre], outcome |-> "returned",
                    ret |-> get_genre_info(genre)]
    /\ UNCHANGED <<pollVars, sub, world>>

\* get_genre_description(genre): the str it returns, as the text before the
\* genre, the genre as written into it, and the pieces after it
get_genre_description(genre) ==
    LET genre_lower == strip(lower(genre))
    IN  IF genre_lower \in DOMAIN GENRE_TEMPLATES
        THEN LET info == GENRE_TEMPLATES[genre_lower]
             IN  [before |-> "", genre |-> upper(genre),
                  after |-> <<Text("\n"), info.style_notes,
                              Text("\n\nStructure: "),
                              Text(info.structure)>>]
        ELSE [before |-> "Genre '", genre |-> genre,
              after |-> <<Text("' not found in templates.")>>]

\* One call of get_genre_description
GetGenreDescription ==
    /\ fn.pc = "idle"
    /\ \E name \in GenreNames, casing \in Casings,
          left \in LeftPads, right \in RightPads :
         LET genre == Typed(name, casing, left, right)
         IN  fn' = [pc |-> "done", op |-> "get_genre_description",
                    name |-> name, args |-> [genre |-> genre],
                    outcome |-> "returned",
                    ret |-> get_genre_description(genre)]
    /\ UNCHANGED <<pollVars, sub, world>>

\* No polling is under way, no job is being submitted
InitGenre == InitSubmit
NextGenre == GetGenreInfo \/ GetGenreDescription
GenreSpec == InitGenre /\ [][NextGenre]_vars

(***************************************************************************)
(* Claims about get_genre_info, under GenreSpec.                           *)
(***************************************************************************)

\* The table of alternative genre names as documented: each alternative
\* name, and the catalog name it stands for
DocumentedAliases ==
    (<<"h", "i", "p", "h", "o", "p">> :> <<"h", "i", "p", "-", "h", "o", "p">>)
    @@ (<<"h", "i", "p", " ", "h", "o", "p">> :>
            <<"h", "i", "p", "-", "h", "o", "p">>)
    @@ (<<"r", "a", "p">> :> <<"h", "i", "p", "-", "h", "o", "p">>)
    @@ (<<"e", "d", "m">> :>
            <<"e", "l", "e", "c", "t", "r", "o", "n", "i", "c">>)
    @@ (<<"d", "a", "n", "c", "e">> :>
            <<"e", "l", "e", "c", "t", "r", "o", "n", "i", "c">>)
    @@ (<<"t", "e", "c", "h", "n", "o">> :>
            <<"e", "l", "e", "c", "t", "r", "o", "n", "i", "c">>)
    @@ (<<"h", "o", "u", "s", "e">> :>
            <<"e", "l", "e", "c", "t", "r", "o", "n", "i", "c">>)
    @@ (<<"r", "n", "b">> :> <<"r", "&", "b">>)
    @@ (<<"r", "h", "y", "t", "h", "m", " ", "a", "n", "d", " ", "b", "l", "u", "e", "s">> :>
            <<"r", "&", "b">>)
    @@ (<<"a", "l", "t", "e", "r", "n", "a", "t", "i", "v", "e">> :>
            <<"i", "n", "d", "i", "e">>)
    @@ (<<"a", "l", "t">> :> <<"i", "n", "d", "i", "e">>)
    @@ (<<"h", "e", "a", "v", "y", " ", "m", "e", "t", "a", "l">> :>
            <<"m", "e", "t", "a", "l">>)
    @@ (<<"d", "e", "a", "t", "h", " ", "m", "e", "t", "a", "l">> :>
            <<"m", "e", "t", "a", "l">>)
    @@ (<<"p", "o", "w", "e", "r", " ", "m", "e", "t", "a", "l">> :>
            <<"m", "e", "t", "a", "l">>)

GenreInfoCalled == fn.pc = "done" /\ fn.op = "get_genre_info"

\* C15: for every alternative name of the documented table, typed in any
\* case and with any whitespace around it, get_genre_info returns what it
\* returns for the catalog name the table gives, which is that name's
\* catalog template.
C15_AliasesResolveToCanonical ==
    (GenreInfoCalled /\ fn.name \in DOMAIN DocumentedAliases) =>
        /\ fn.ret = get_genre_info(DocumentedAliases[fn.name])
        /\ fn.ret = GENRE_TEMPLATES[DocumentedAliases[fn.name]]

\* "  RHYTHM AND BLUES " has been looked up and got the r&b template
C15_Witness ==
    /\ GenreInfoCalled
    /\ fn.name =
            <<"r", "h", "y", "t", "h", "m", " ", "a", "n", "d", " ", "b", "l", "u", "e", "s">>
    /\ fn.args.genre = <<" ">> \o upper(fn.name) \o <<" ", "\n">>
    /\ fn.ret = GENRE_TEMPLATES[<<"r", "&", "b">>]

\* C16: get_genre_info returns for every string.  For a name that is, in
\* lower case and without the whitespace around it, neither a catalog name
\* nor an alternative name, it returns the generic template, whose
\* structure is "Verse 1, Chorus, Verse 2, Chorus, Bridge, Chorus" and
\* whose style note holds the argument exactly as it was passed; for every
\* other name it returns a template of the catalog.
C16_UnknownGenreGetsGenericTemplate ==
    GenreInfoCalled =>
        /\ fn.outcome = "returned"
        /\ IF fn.name \in DOMAIN GENRE_TEMPLATES \cup DOMAIN DocumentedAliases
           THEN fn.ret \in Range(GENRE_TEMPLATES)
           ELSE /\ fn.ret.structure
                     = "Verse 1, Chorus, Verse 2, Chorus, Bridge, Chorus"
                /\ fn.ret.style_notes.before = "Write authentic "
                /\ fn.ret.style_notes.value = fn.args.genre
                /\ fn.ret \notin Range(GENRE_TEMPLATES)

\* "\tK-POP " has been looked up: the generic template, with "\tK-POP " in
\* its style note
C16_Witness ==
    /\ GenreInfoCalled
    /\ fn.name = <<"k", "-", "p", "o", "p">>
    /\ fn.args.genre = <<"\t">> \o upper(fn.name) \o <<" ">>
    /\ fn.args.genre # strip(lower(fn.args.genre))
    /\ fn.ret.style_notes.value = fn.args.genre


(***************************************************************************)
(* Construction of TracksMartinClient (src/tracksmartin_api.py) and of     *)
(* LyricsGenerator (src/lyrics_generator.py), and the requests made        *)
(* through the objects.  The environment is the one os.getenv reads after  *)
(* load_dotenv().                                                          *)
(***************************************************************************)
MaxRequests == 2

\* The api_key argument, and the value of an environment variable (None:
\* not set)
Credentials == {None, "", "ARGKEY"}
EnvValues == {None, "", "ENVKEY"}
Environments == [SUNO_API_KEY : EnvValues, OPENAI_KEY : EnvValues]

\* No object: the constructor has not returned one
NoObject == [built |-> FALSE]

\* Python's `a or b`
Or(a, b) == IF Truthy(a) THEN a ELSE b

\* The constructors without their check
MissingKey_Never(key) == FALSE

\* `if not self.api_key:`
MissingKey(key) == ~Truthy(key)

\* TracksMartinClient(api_key): the object, or the exception
TracksMartinClient_init(api_key, env) ==
    LET key == Or(api_key, env.SUNO_API_KEY)
    IN  IF MissingKey(key)
        THEN [raised |-> TRUE, self |-> NoObject,
              exc |-> [kind |-> "ValueError",
                       msg |->
                               <<"API key is required. Provide it directly or set SUNO_API_KEY environment variable.">>]]
        ELSE [raised |-> FALSE, exc |-> NoExc,
              self |-> [api_key  |-> key,
                        base_url |-> "https://api.sunoapi.com/api/v1",
                        headers  |-> [Authorization |-> <<"Bearer ", key>>,
                                      ContentType   |-> "application/json"]]]

\* LyricsGenerator(api_key): the object, or the exception
LyricsGenerator_init(api_key, env) ==
    LET key == Or(api_key, env.OPENAI_KEY)
    IN  IF MissingKey(key)
        THEN [raised |-> TRUE, self |-> NoObject,
              exc |-> [kind |-> "ValueError",
                       msg |->
                               <<"OpenAI API key is required. Provide it directly or set OPENAI_KEY environment variable in your .env file.">>]]
        ELSE [raised |-> FALSE, exc |-> NoExc,
              self |-> [api_key |-> key, client |-> [api_key |-> key]]]

\* A constructor not yet called, and one that has been
Unbuilt == [pc |-> "unbuilt", arg |-> None, exc |-> NoExc]
Constructed(api_key, made) ==
    [pc  |-> IF made.raised THEN "raised" ELSE "built",
     arg |-> api_key,
     exc |-> made.exc]

notObjectVars == <<max_attempts, interval, attempt, pc, response, outcome,
                   result, trace, log, afterTimeout, sub, fn>>

\* client = TracksMartinClient(api_key)
NewTracksMartinClient ==
    /\ world.api.pc = "unbuilt"
    /\ \E api_key \in Credentials :
         LET made == TracksMartinClient_init(api_key, world.env)
         IN  /\ client' = made.self
             /\ world' = [world EXCEPT !.api = Constructed(api_key, made)]
    /\ UNCHANGED notObjectVars

\* generator = LyricsGenerator(api_key)
NewLyricsGenerator ==
    /\ world.lyrics.pc = "unbuilt"
    /\ \E api_key \in Credentials :
         LET made == LyricsGenerator_init(api_key, world.env)
         IN  world' = [world EXCEPT !.lyrics = Constructed(api_key, made),
                                    !.generator = made.self]
    /\ UNCHANGED <<client, notObjectVars>>

\* Any method of the client that goes through _make_request: one request
\* to the music service, under self.headers
ClientRequest ==
    /\ client # NoObject
    /\ world.requests.suno < MaxRequests
    /\ world' = [world EXCEPT !.requests.suno = @ + 1,
                              !.bearer = client.headers.Authorization[2]]
    /\ UNCHANGED <<client, notObjectVars>>

\* self.client.chat.completions.create(...): one request to the
\* text-generation service
GeneratorRequest ==
    /\ world.generator # NoObject
    /\ world.requests.openai < MaxRequests
    /\ world' = [world EXCEPT !.requests.openai = @ + 1]
    /\ UNCHANGED <<client, notObjectVars>>

InitObject ==
    /\ client = NoObject
    /\ max_attempts = 0
    /\ interval = DefaultInterval
    /\ attempt = 1
    /\ pc = "loop"
    /\ response = NoResponse
    /\ outcome = "none"
    /\ result = NoResult
    /\ trace = <<>>
    /\ log = <<>>
    /\ afterTimeout = FALSE
    /\ sub = NoSub
    /\ fn = NoCall
    /\ \E env \in Environments :
         world = [env |-> env, api |-> Unbuilt, lyrics |-> Unbuilt,
                  generator |-> NoObject, bearer |-> None,
                  requests |-> [suno |-> 0, openai |-> 0]]

NextObject ==
    \/ NewTracksMartinClient
    \/ NewLyricsGenerator
    \/ ClientRequest
    \/ GeneratorRequest

ObjectSpec == InitObject /\ [][NextObject]_vars

(***************************************************************************)
(* Claims about construction, under ObjectSpec.                            *)
(***************************************************************************)

\* C17: TracksMartinClient called with no api_key while SUNO_API_KEY is not
\* set raises ValueError, and so does LyricsGenerator with no api_key while
\* OPENAI_KEY is not set; no object exists afterwards and no request has
\* been or will be made to that service; every request made carries a
\* credential.
C17_NoCredentialNoClient ==
    /\ (world.api.pc # "unbuilt" /\ world.api.arg = None
          /\ world.env.SUNO_API_KEY = None) =>
           /\ world.api.pc = "raised"
           /\ world.api.exc.kind = "ValueError"
           /\ client = NoObject
           /\ world.requests.suno = 0
    /\ (world.lyrics.pc # "unbuilt" /\ world.lyrics.arg = None
          /\ world.env.OPENAI_KEY = None) =>
           /\ world.lyrics.pc = "raised"
           /\ world.lyrics.exc.kind = "ValueError"
           /\ world.generator = NoObject
           /\ world.requests.openai = 0
    /\ world.requests.suno > 0 =>
           /\ client # NoObject
           /\ world.bearer \notin {None, ""}
    /\ world.requests.openai > 0 =>
           /\ world.generator # NoObject
           /\ world.generator.api_key \notin {None, ""}

\* Both constructors have been called with nothing passed and nothing set,
\* and both raised
C17_Witness ==
    /\ world.env = [SUNO_API_KEY |-> None, OPENAI_KEY |-> None]
    /\ world.api.pc = "raised" /\ world.api.arg = None
    /\ world.lyrics.pc = "raised" /\ world.lyrics.arg = None
    /\ client = NoObject /\ world.generator = NoObject


(***************************************************************************)
(* LyricsGenerator.generate_lyrics (src/lyrics_generator.py): the reply of *)
(* the text-generation service and what is made of it.  In a reply the     *)
(* markers "TITLE:" and "TAGS:" are one symbol each.                       *)
(***************************************************************************)
MaxLines == 4

\* None where a str is expected: no string holds the symbol None
NoneStr == <<None>>

\* `a or b` on Optional[str]
StrTruthy(s) == s # NoneStr /\ s # <<>>
StrOr(a, b) == IF StrTruthy(a) THEN a ELSE b

\* str.startswith
startswith(s, prefix) ==
    Len(s) >= Len(prefix) /\ SubSeq(s, 1, Len(prefix)) = prefix

\* str.replace(old, new): every occurrence, left to right
RECURSIVE replace(_, _, _)
replace(s, old, new) ==
    IF Len(s) < Len(old) \/ s = <<>> THEN s
    ELSE IF startswith(s, old)
         THEN new \o replace(SubSeq(s, Len(old) + 1, Len(s)), old, new)
         ELSE <<s[1]>> \o replace(Tail(s), old, new)

\* str.split(sep), sep one symbol
RECURSIVE split(_, _)
split(s, sep) ==
    IF \A i \in DOMAIN s : s[i] # sep THEN <<s>>
    ELSE LET i == CHOOSE k \in DOMAIN s :
                      s[k] = sep /\ \A j \in 1..(k - 1) : s[j] # sep
         IN  <<SubSeq(s, 1, i - 1)>> \o split(SubSeq(s, i + 1, Len(s)), sep)

\* sep.join(lines)
RECURSIVE join(_, _)
join(lines, sep) ==
    IF lines = <<>> THEN <<>>
    ELSE IF Len(lines) = 1 THEN lines[1]
    ELSE lines[1] \o <<sep>> \o join(Tail(lines), sep)

\* The for loop over the lines of the reply, from line i on
RECURSIVE ParseLines(_, _, _)
ParseLines(lines, i, locals) ==
    IF i > Len(lines) THEN locals
    ELSE LET line == lines[i]
         IN  ParseLines(lines, i + 1,
               IF startswith(line, <<"TITLE:">>)
               THEN [locals EXCEPT !.parsed_title =
                        strip(replace(line, <<"TITLE:">>, <<>>))]
               ELSE IF startswith(line, <<"TAGS:">>)
               THEN [locals EXCEPT !.parsed_tags =
                        strip(replace(line, <<"TAGS:">>, <<>>))]
               ELSE [locals EXCEPT !.lyrics_lines = Append(@, line)])

\* The locals of generate_lyrics after the loop
Parsed(content) ==
    ParseLines(split(strip(content), "\n"), 1,
               [parsed_title |-> NoneStr, parsed_tags |-> NoneStr,
                lyrics_lines |-> <<>>])

NoLocals == [parsed_title |-> NoneStr, parsed_tags |-> NoneStr,
             lyrics_lines |-> <<>>]
NoLyrics == [lyrics |-> <<>>, title |-> <<>>, genre |-> <<>>,
             suggested_tags |-> <<>>]

\* except Exception as e: raise LyricsGeneratorError(...)
LyricsFailed(cause) ==
    [outcome |-> "raised", locals |-> NoLocals, ret |-> NoLyrics,
     exc |-> [kind |-> "LyricsGeneratorError",
              msg |-> <<"Failed to generate lyrics: ", cause>>]]

\* f"Untitled {genre.title()} Song" and f"{genre}, original"
Untitled(genre) ==
    <<"U", "n", "t", "i", "t", "l", "e", "d", " ">> \o title(genre)
        \o <<" ", "S", "o", "n", "g">>
OriginalTags(genre) ==
    genre \o <<",", " ", "o", "r", "i", "g", "i", "n", "a", "l">>

\* generate_lyrics preferring the caller's title to the parsed one
generate_lyrics_CallerTitleFirst(a, reply) ==
    IF ~reply.ok THEN LyricsFailed(reply.cause)
    ELSE IF reply.content = NoneStr
    THEN LyricsFailed("'NoneType' object has no attribute 'strip'")
    ELSE LET locals == Parsed(reply.content)
         IN  [outcome |-> "returned", locals |-> locals, exc |-> NoExc,
              ret |-> [lyrics |-> strip(join(locals.lyrics_lines, "\n")),
                       title  |-> StrOr(a.title, StrOr(locals.parsed_title,
                                           Untitled(a.genre))),
                       genre  |-> a.genre,
                       suggested_tags |-> StrOr(locals.parsed_tags,
                                           OriginalTags(a.genre))]]

\* generate_lyrics(theme, genre, title, ...), from the reply on
generate_lyrics(a, reply) ==
    IF ~reply.ok THEN LyricsFailed(reply.cause)
    ELSE IF reply.content = NoneStr
    THEN LyricsFailed("'NoneType' object has no attribute 'strip'")
    ELSE LET locals == Parsed(reply.content)
         IN  [outcome |-> "returned", locals |-> locals, exc |-> NoExc,
              ret |-> [lyrics |-> strip(join(locals.lyrics_lines, "\n")),
                       title  |-> StrOr(locals.parsed_title, StrOr(a.title,
                                           Untitled(a.genre))),
                       genre  |-> a.genre,
                       suggested_tags |-> StrOr(locals.parsed_tags,
                                           OriginalTags(a.genre))]]

\* The lines a reply is written from: empty, lyrics, a title, an empty
\* title, a title that repeats the marker, an indented title, tags, empty
\* tags
ReplyLines ==
    {<<>>,
     <<"x">>,
     <<" ", "y", " ">>,
     <<"TITLE:", " ", "x">>,
     <<"TITLE:">>,
     <<"TITLE:", "x", "TITLE:", "y">>,
     <<" ", "TITLE:", "x">>,
     <<"TAGS:", " ", "y", " ">>,
     <<"TAGS:">>}

\* The sequences of 1..n reply lines
RepliesOf(n) == UNION {[1..k -> ReplyLines] : k \in 1..n}

LyricsArgs ==
    [genre : {<<"h", "i", "p", "-", "h", "o", "p">>, <<"r", "&", "b">>},
     title : {NoneStr, <<>>, <<"M", "i", "n", "e">>}]

\* One call of generate_lyrics; written is the lines the reply consists of
GenerateLyrics ==
    /\ fn.pc = "idle"
    /\ \E a \in LyricsArgs, written \in RepliesOf(MaxLines) :
         LET reply == [ok |-> TRUE, content |-> join(written, "\n"),
                       cause |-> None]
         IN  fn' = [pc |-> "done", op |-> "generate_lyrics", args |-> a,
                    written |-> written, reply |-> reply,
                    call |-> generate_lyrics(a, reply)]
    /\ UNCHANGED <<pollVars, sub, world>>

\* One call of generate_lyrics in which the service call raises, or the
\* reply has no content
GenerateLyricsFails ==
    /\ fn.pc = "idle"
    /\ \E a \in LyricsArgs,
          reply \in {[ok |-> FALSE, content |-> NoneStr,
                      cause |-> "Connection error."],
                     [ok |-> TRUE, content |-> NoneStr, cause |-> None]} :
         fn' = [pc |-> "done", op |-> "generate_lyrics", args |-> a,
                written |-> <<>>, reply |-> reply,
                call |-> generate_lyrics(a, reply)]
    /\ UNCHANGED <<pollVars, sub, world>>

InitLyrics == InitSubmit
NextLyrics == GenerateLyrics \/ GenerateLyricsFails
LyricsSpec == InitLyrics /\ [][NextLyrics]_vars


(***************************************************************************)
(* Claims about generate_lyrics, under LyricsSpec.                         *)
(***************************************************************************)

LyricsReturned ==
    fn.pc = "done" /\ fn.op = "generate_lyrics" /\ fn.call.outcome = "returned"

\* The reply lines that begin with a marker, and the text of such a line
\* after the marker, trimmed
LinesBeginning(marker) ==
    {i \in DOMAIN fn.written : startswith(fn.written[i], <<marker>>)}
ContentAfterMarker(line) == strip(Tail(line))
IsOtherLine(line) ==
    ~startswith(line, <<"TITLE:">>) /\ ~startswith(line, <<"TAGS:">>)

\* C18: for a reply with exactly one line beginning with "TITLE:", exactly
\* one beginning with "TAGS:" and N other lines, generate_lyrics returns as
\* lyrics the N other lines in their order joined by newlines and trimmed
\* (so no TITLE or TAGS line is in them), as title the text of the TITLE
\* line after the marker and as tags the text of the TAGS line after the
\* marker (texts trimmed; an empty text is the case of the fallbacks).
C18_ParserSplitsTitleTagsLyrics ==
    (/\ LyricsReturned
     /\ Cardinality(LinesBeginning("TITLE:")) = 1
     /\ Cardinality(LinesBeginning("TAGS:")) = 1) =>
        LET t == CHOOSE i \in LinesBeginning("TITLE:") : TRUE
            g == CHOOSE i \in LinesBeginning("TAGS:") : TRUE
            title_text == ContentAfterMarker(fn.written[t])
            tags_text == ContentAfterMarker(fn.written[g])
        IN  /\ fn.call.ret.lyrics
                 = strip(join(SelectSeq(fn.written, IsOtherLine), "\n"))
            /\ title_text # <<>> => fn.call.ret.title = title_text
            /\ tags_text # <<>> => fn.call.ret.suggested_tags = tags_text

\* The synthesized titles and tags as documented, by genre
DocumentedUntitled ==
    (<<"h", "i", "p", "-", "h", "o", "p">> :>
            <<"U", "n", "t", "i", "t", "l", "e", "d", " ", "H", "i", "p", "-", "H", "o", "p", " ", "S", "o", "n", "g">>)
    @@ (<<"r", "&", "b">> :>
            <<"U", "n", "t", "i", "t", "l", "e", "d", " ", "R", "&", "B", " ", "S", "o", "n", "g">>)
DocumentedTags ==
    (<<"h", "i", "p", "-", "h", "o", "p">> :>
            <<"h", "i", "p", "-", "h", "o", "p", ",", " ", "o", "r", "i", "g", "i", "n", "a", "l">>)
    @@ (<<"r", "&", "b">> :>
            <<"r", "&", "b", ",", " ", "o", "r", "i", "g", "i", "n", "a", "l">>)

\* C19: the title generate_lyrics returns is the parsed title if that is
\* not empty, else the caller's title if one was given, else "Untitled
\* <Genre> Song"; the tags are the parsed tags if not empty, else "<genre>,
\* original"; neither is ever empty.
C19_TitleAndTagsFallBack ==
    LyricsReturned =>
        LET parsed_title == fn.call.locals.parsed_title
            parsed_tags == fn.call.locals.parsed_tags
            ret == fn.call.ret
        IN  /\ ret.title =
                 IF parsed_title \notin {NoneStr, <<>>} THEN parsed_title
                 ELSE IF fn.args.title \notin {NoneStr, <<>>}
                      THEN fn.args.title
                      ELSE DocumentedUntitled[fn.args.genre]
            /\ ret.suggested_tags =
                 IF parsed_tags \notin {NoneStr, <<>>} THEN parsed_tags
                 ELSE DocumentedTags[fn.args.genre]
            /\ ret.title \notin {NoneStr, <<>>}
            /\ ret.suggested_tags \notin {NoneStr, <<>>}

\* A reply with a title, the caller's own title passed too, and no tags:
\* the parsed title and "hip-hop, original" are returned
C19_Witness ==
    /\ LyricsReturned
    /\ fn.written = <<<<"TITLE:", " ", "x">>, <<"x">>, <<" ", "y", " ">>>>
    /\ fn.args = [genre |-> <<"h", "i", "p", "-", "h", "o", "p">>, title |->
            <<"M", "i", "n", "e">>]
    /\ fn.call.ret.title = <<"x">>
    /\ fn.call.ret.suggested_tags =
            <<"h", "i", "p", "-", "h", "o", "p", ",", " ", "o", "r", "i", "g", "i", "n", "a", "l">>
    /\ fn.call.ret.lyrics = <<"x", "\n", " ", "y">>


(***************************************************************************)
(* TracksMartinClient.sanitize_filename (src/tracksmartin_api.py).         *)
(***************************************************************************)
MaxNameLen == 3

\* c.isalnum() or c in (' ', '_', '-')
KeptInFilename(c) == isalnum(c) \/ c \in {" ", "_", "-"}

\* sanitize_filename without the final strip
sanitize_filename_Untrimmed(name) == SelectSeq(name, KeptInFilename)

\* sanitize_filename stripping the name before it drops characters
sanitize_filename_StripFirst(name) == SelectSeq(strip(name), KeptInFilename)

\* sanitize_filename(name)
sanitize_filename(name) == strip(SelectSeq(name, KeptInFilename))

\* The title "My/Song: Final!"
ExampleName ==
    <<"M", "y", "/", "S", "o", "n", "g", ":", " ", "F", "i", "n", "a", "l", "!">>

\* The characters names are made of here, and the names: every string of
\* up to MaxNameLen of them, and the title "My/Song: Final!"
NameChars == {"a", "Z", "7", " ", "_", "-", "/", "\t"}
Names ==
    UNION {[1..k -> NameChars] : k \in 0..MaxNameLen}
    \cup {ExampleName}

\* One call of sanitize_filename
SanitizeFilename ==
    /\ fn.pc = "idle"
    /\ \E name \in Names :
         fn' = [pc |-> "done", op |-> "sanitize_filename",
                args |-> [name |-> name], ret |-> sanitize_filename(name)]
    /\ UNCHANGED <<pollVars, sub, world>>

\* sanitize_filename called on what the call before returned
SanitizeAgain ==
    /\ fn.pc = "done"
    /\ fn.op = "sanitize_filename"
    /\ fn' = [pc |-> "again", op |-> "sanitize_filename",
              first |-> fn.args.name, args |-> [name |-> fn.ret],
              ret |-> sanitize_filename(fn.ret)]
    /\ UNCHANGED <<pollVars, sub, world>>

InitName == InitSubmit
NextName == SanitizeFilename \/ SanitizeAgain
NameSpec == InitName /\ [][NextName]_vars

(***************************************************************************)
(* Claims about sanitize_filename, under NameSpec.                         *)
(***************************************************************************)

\* "MySong Final"
ExampleResult ==
    <<"M", "y", "S", "o", "n", "g", " ", "F", "i", "n", "a", "l">>

\* The characters a file name may hold, as documented
DocumentedAllowed(c) ==
    \/ c \in Range(Lowercase) \cup Range(Uppercase) \cup Digits
    \/ c \in {" ", "_", "-"}

\* C20: sanitize_filename(name) is the allowed characters of name
\* (alphanumeric, space, underscore, hyphen) in their order, less the
\* whitespace at its two ends: it neither begins nor ends with whitespace,
\* and every character of it is allowed; "My/Song: Final!" gives
\* "MySong Final".
C20_SanitizeKeepsAllowedCharacters ==
    (fn.pc = "done" /\ fn.op = "sanitize_filename") =>
        LET kept == SelectSeq(fn.args.name, DocumentedAllowed)
        IN  /\ \E i \in 0..Len(kept), j \in 0..Len(kept) :
                 /\ i <= j
                 /\ fn.ret = SubSeq(kept, i + 1, j)
                 /\ \A k \in 1..i : kept[k] \in Whitespace
                 /\ \A k \in (j + 1)..Len(kept) : kept[k] \in Whitespace
            /\ fn.ret # <<>> =>
                 /\ fn.ret[1] \notin Whitespace
                 /\ fn.ret[Len(fn.ret)] \notin Whitespace
            /\ \A k \in DOMAIN fn.ret : DocumentedAllowed(fn.ret[k])
            /\ fn.args.name = ExampleName
                 => fn.ret = ExampleResult

\* "My/Song: Final!" has been sanitized to "MySong Final"
C20_Witness ==
    /\ fn.pc = "done" /\ fn.op = "sanitize_filename"
    /\ fn.args.name = ExampleName
    /\ fn.ret = ExampleResult


(***************************************************************************)
(* TracksMartinClient._make_request on its own (src/tracksmartin_api.py):  *)
(* every method, and error replies with bodies around the 500-character    *)
(* limit.                                                                  *)
(***************************************************************************)

\* The method argument as callers may write it
Methods == {<<"G", "E", "T">>, <<"g", "e", "t">>, <<"P", "O", "S", "T">>,
            <<"P", "U", "T">>}
Endpoints == {"suno/task/T", "suno/create", "suno/midi"}

\* Body sizes on both sides of the limit
BodySizes == {1, TextLimit - 1, TextLimit, TextLimit + 1, 2 * TextLimit}

RequestReplies ==
    [ok : {TRUE}, body : SubmitBodies, cause : {None},
     response : {NoHttpResponse}]
        \cup Failures(NoBody, BodySizes)

\* self._make_request(method, endpoint): the value returned or the
\* exception raised, and the requests sent
MakeRequestCall(method, endpoint, reply) ==
    IF upper(method) \notin {<<"G", "E", "T">>, <<"P", "O", "S", "T">>}
    THEN [outcome |-> "raised", value |-> NoBody, requests |-> 0,
          url |-> <<TheClient.base_url, "/", endpoint>>,
          exc |-> [kind |-> "ValueError",
                   msg |-> <<"Unsupported HTTP method: ", method>>]]
    ELSE LET got == make_request(reply)
         IN  [outcome  |-> IF got.raised THEN "raised" ELSE "returned",
              value    |-> IF got.raised THEN NoBody ELSE got.value,
              requests |-> 1,
              url      |-> <<TheClient.base_url, "/", endpoint>>,
              exc      |-> IF got.raised THEN got.exc ELSE NoExc]

\* One call of _make_request
MakeRequest ==
    /\ fn.pc = "idle"
    /\ \E method \in Methods, endpoint \in Endpoints,
          reply \in RequestReplies :
         fn' = [pc |-> "done", op |-> "_make_request",
                args |-> [method |-> method, endpoint |-> endpoint],
                reply |-> reply,
                call |-> MakeRequestCall(method, endpoint, reply)]
    /\ UNCHANGED <<pollVars, sub, world>>

InitRequest == InitSubmit
NextRequest == MakeRequest
RequestSpec == InitRequest /\ [][NextRequest]_vars

(***************************************************************************)
(* Claims about _make_request, under RequestSpec.                          *)
(***************************************************************************)

\* The request was sent and failed
RequestFailed ==
    /\ fn.pc = "done" /\ fn.op = "_make_request"
    /\ fn.call.requests = 1
    /\ ~fn.reply.ok

\* C21: a request that fails with a network or HTTP error raises
\* SunoAPIError whose message names the cause, and the detail of the
\* response body appended to the message, JSON or text, is at most 500
\* characters long.
C21_ErrorDetailIsBounded ==
    RequestFailed =>
        /\ fn.call.outcome = "raised"
        /\ fn.call.exc.kind = "SunoAPIError"
        /\ fn.call.exc.msg[1] = "API request failed: "
        /\ fn.call.exc.msg[2] = fn.reply.cause
        /\ Len(fn.call.exc.msg) > 2 => fn.call.exc.msg[4].chars <= 500


(***************************************************************************)
(* Further claims about poll_until_complete, under Spec.                   *)
(***************************************************************************)

\* The last query answered with an envelope that has code 200 and a
\* non-empty data list and no not_ready marker
ExaminedClips ==
    /\ Examined
    /\ ~("type" \in response.has /\ response.type = "not_ready")
    /\ "code" \in response.has /\ response.code = 200
    /\ "data" \in response.has /\ Len(response.data) > 0

\* C22: when a query brings a non-empty data list, what the call does
\* depends on the state of the first clip alone: it returns when that is
\* succeeded, whatever the later clips, raises the job failure when it is
\* error or failed, and polls on otherwise, a later clip in error or failed
\* notwithstanding.
C22_FirstClipGoverns ==
    ExaminedClips =>
        LET first == response.data[1].state
        IN  CASE first = "succeeded" ->
                   pc = "done" /\ outcome = "returned"
              [] first \in {"error", "failed"} ->
                   /\ pc = "done" /\ outcome = "raised"
                   /\ result.msg = <<"Generation failed with state: ", first>>
              [] OTHER -> KeptPolling

\* The first clip is still processing and the second has failed: the call
\* is back at the top of the loop
C22_Witness ==
    /\ ExaminedClips
    /\ Len(response.data) = 2
    /\ response.data[1].state = "processing"
    /\ response.data[2].state = "failed"
    /\ pc = "loop" /\ outcome = "none"


\* Spec with every step of a call eventually taken: the thread runs on,
\* time.sleep returns, and every status query is answered or fails
LiveSpec ==
    /\ Init
    /\ [][Next]_vars
    /\ WF_vars(Sleep)
    /\ WF_vars(Query)
    /\ WF_vars(Timeout)

\* How a call has ended
EndedWith ==
    IF outcome = "returned"
    THEN IF result.kind = "clip" THEN {"clip"} ELSE {}
    ELSE IF outcome = "raised" /\ result.kind = "SunoAPIError"
    THEN {k \in {"Generation failed with state: ",
                 "Polling timed out after ",
                 "API request failed: "} : result.msg[1] = k}
    ELSE {}

\* C23: for every max_attempts >= 0 and whatever the queries bring, the
\* call ends, after at most max_attempts queries, in exactly one of four
\* ways: a clip returned, the job failure raised, the timeout raised, the
\* transport error passed on; with max_attempts = 0 it raises the timeout
\* with nothing slept and nothing queried.
C23_AlwaysTerminates ==
    /\ [](/\ Queries <= max_attempts
          /\ pc = "done" => Cardinality(EndedWith) = 1
          /\ pc # "done" => outcome = "none"
          /\ (max_attempts = 0 /\ pc = "done") => (TimedOut /\ trace = <<>>))
    /\ (pc # "done") ~> (pc = "done")

\* A call with a budget of MaxAttempts has used it all and timed out
C23_Witness ==
    /\ max_attempts = MaxAttempts
    /\ Queries = MaxAttempts
    /\ TimedOut

\* C24: a call that returns returns the first clip of the envelope its
\* last query brought; that envelope has code 200 and the clip's state is
\* exactly "succeeded".
C24_ReturnsSucceededClipOfLastQuery ==
    (pc = "done" /\ outcome = "returned") =>
        /\ Examined
        /\ trace[Len(trace)] = [ev |-> "query", arg |-> Queries]
        /\ "code" \in response.has /\ response.code = 200
        /\ result.kind = "clip"
        /\ result.clip = response.data[1]
        /\ result.clip.state = "succeeded"

\* The third query of a call brought two clips, the first succeeded and
\* the second still queued, and the first was returned
C24_Witness ==
    /\ pc = "done" /\ outcome = "returned"
    /\ Queries = 3
    /\ Len(response.data) = 2
    /\ response.data[2].state = "queued"
    /\ result.clip.state = "succeeded"

\* C25: an envelope with type "not_ready" is a Waiting one whatever else it
\* holds: with code 200 and a first clip succeeded, error or failed the
\* call neither returns nor raises the job failure but polls on.
C25_NotReadyTakesPrecedence ==
    (/\ Examined
     /\ "type" \in response.has /\ response.type = "not_ready") =>
        KeptPolling

\* A not_ready envelope with code 200 and a succeeded first clip has been
\* examined, and the call is at the top of the loop again
C25_Witness ==
    /\ Examined
    /\ response.has = {"type", "code", "data"}
    /\ response.type = "not_ready" /\ response.code = 200
    /\ Len(response.data) > 0 /\ response.data[1].state = "succeeded"
    /\ pc = "loop" /\ outcome = "none"


(***************************************************************************)
(* TracksMartinClient.get_midi (src/tracksmartin_api.py).  The loop uses   *)
(* the variables of the polling loop: max_attempts, interval, attempt      *)
(* (here from 0, range(max_attempts)), pc, response, outcome, result and   *)
(* trace.                                                                  *)
(***************************************************************************)

\* data.get('midi_url'): a URL, a text that starts with "Failed", one that
\* holds it further on, the empty string, or None (JSON null)
MidiUrls ==
    {<<"https://cdn/x.mid">>, <<"Failed", ": generating midi...">>,
     <<"MIDI ", "Failed">>, <<>>, NoneStr}

\* response['data']: a dict that may have 'midi_url'
MidiData ==
    {d \in [has : SUBSET {"midi_url"}, midi_url : MidiUrls] :
        "midi_url" \notin d.has => d.midi_url = NoneStr}
NoMidiData == [has |-> {}, midi_url |-> NoneStr]

\* The body of a reply to POST suno/midi
MidiBodies ==
    {b \in [has : SUBSET {"code", "data"}, code : {HTTP_OK, 500},
            data : MidiData] :
        /\ ("code" \notin b.has => b.code = 500)
        /\ ("data" \notin b.has => b.data = NoMidiData)}

\* `response` before its first assignment
NoMidiResponse == [has |-> {"unassigned"}, code |-> 500, data |-> NoMidiData]

MidiReplies ==
    [ok : {TRUE}, body : MidiBodies, cause : {None},
     response : {NoHttpResponse}]
        \cup Failures(NoMidiResponse, {1})

\* response.get('code') == 200 and 'data' in response, and
\* data.get('midi_url') and not data.get('midi_url').startswith('Failed')
MidiReady(r) ==
    /\ "code" \in r.has /\ r.code = HTTP_OK
    /\ "data" \in r.has
    /\ StrTruthy(r.data.midi_url)
    /\ ~startswith(r.data.midi_url, <<"Failed">>)

\* The loop has a next value: attempt in range(max_attempts)
MidiLoopGuard == attempt < max_attempts

\* Sleeps after every attempt, the last included
MidiSleepGuard_AfterLast == attempt < max_attempts

\* if attempt < max_attempts - 1
MidiSleepGuard == attempt < max_attempts - 1

\* return response, with no response assigned
UnboundLocal ==
    [kind |-> "UnboundLocalError",
     msg  |-> <<"cannot access local variable 'response'">>]

\* response = self._make_request("POST", "suno/midi", data=payload), and
\* the check of what it brought
MidiRequest ==
    /\ pc = "loop"
    /\ MidiLoopGuard
    /\ \E reply \in MidiReplies :
         LET got == make_request(reply)
         IN  /\ trace' = Append(trace, [ev |-> "request", arg |-> attempt])
             /\ IF got.raised
                THEN /\ outcome' = "raised"
                     /\ result' = got.exc
                     /\ pc' = "done"
                     /\ UNCHANGED response
                ELSE /\ response' = got.value
                     /\ IF MidiReady(got.value)
                        THEN /\ outcome' = "returned"
                             /\ result' = [kind |-> "response",
                                           response |-> got.value]
                             /\ pc' = "done"
                        ELSE /\ pc' = "checked"
                             /\ UNCHANGED <<outcome, result>>
    /\ UNCHANGED <<client, max_attempts, interval, attempt, log, afterTimeout,
                   notPollVars>>

\* time.sleep(interval) between two attempts
MidiSleep ==
    /\ pc = "checked"
    /\ MidiSleepGuard
    /\ trace' = Append(trace, [ev |-> "sleep", arg |-> interval])
    /\ attempt' = attempt + 1
    /\ pc' = "loop"
    /\ UNCHANGED <<client, max_attempts, interval, response, outcome, result,
                   log, afterTimeout, notPollVars>>

\* No sleep after the last attempt
MidiNoSleep ==
    /\ pc = "checked"
    /\ ~MidiSleepGuard
    /\ attempt' = attempt + 1
    /\ pc' = "loop"
    /\ UNCHANGED <<client, max_attempts, interval, response, outcome, result,
                   trace, log, afterTimeout, notPollVars>>

\* The loop is exhausted: return response
MidiExhausted ==
    /\ pc = "loop"
    /\ ~MidiLoopGuard
    /\ IF response = NoMidiResponse
       THEN outcome' = "raised" /\ result' = UnboundLocal
       ELSE /\ outcome' = "returned"
            /\ result' = [kind |-> "response", response |-> response]
    /\ pc' = "done"
    /\ UNCHANGED <<client, max_attempts, interval, attempt, response, trace,
                   log, afterTimeout, notPollVars>>

\* get_midi(clip_id, max_attempts, interval) is called
InitMidi ==
    /\ client = TheClient
    /\ \E m \in 0..MaxAttempts, i \in Intervals :
         /\ max_attempts = m
         /\ interval = i
    /\ attempt = 0
    /\ pc = "loop"
    /\ response = NoMidiResponse
    /\ outcome = "none"
    /\ result = NoResult
    /\ trace = <<>>
    /\ log = <<>>
    /\ afterTimeout = FALSE
    /\ sub = NoSub
    /\ fn = NoCall
    /\ world = NoWorld

NextMidi == MidiRequest \/ MidiSleep \/ MidiNoSleep \/ MidiExhausted

MidiSpec == InitMidi /\ [][NextMidi]_vars


(***************************************************************************)
(* Claims about get_midi, under MidiSpec.                                  *)
(***************************************************************************)

Requests == Cardinality({i \in DOMAIN trace : trace[i].ev = "request"})

\* The last thing the call did was a request that was answered
Answered ==
    /\ trace # <<>>
    /\ trace[Len(trace)].ev = "request"
    /\ pc \in {"checked", "done"}
    /\ ~(outcome = "raised" /\ result.kind = "SunoAPIError")

\* A response with the MIDI in it, as documented: code 200, data present,
\* a midi_url that is not empty and does not start with "Failed"
DocumentedMidiReady(r) ==
    /\ "code" \in r.has /\ r.code = 200
    /\ "data" \in r.has
    /\ "midi_url" \in r.data.has
    /\ r.data.midi_url \notin {NoneStr, <<>>}
    /\ r.data.midi_url[1] # "Failed"

\* C26: get_midi with max_attempts >= 1 requests at once, requests at most
\* max_attempts times, sleeps `interval` only between two requests (at
\* most max_attempts - 1 times, never after the last attempt), returns the
\* response as soon as one has the MIDI in it, and after the last attempt
\* returns the last response and raises no timeout.
C26_MidiPollsAndReturnsLastResponse ==
    max_attempts >= 1 =>
        /\ trace # <<>> => trace[1].ev = "request"
        /\ Requests <= max_attempts
        /\ Sleeps <= max_attempts - 1
        /\ \A i \in DOMAIN trace :
              IF trace[i].ev = "sleep"
              THEN /\ trace[i].arg = interval
                   /\ i > 1 /\ trace[i - 1].ev = "request"
                   /\ i < Len(trace) => trace[i + 1].ev = "request"
                   /\ pc = "done" => i < Len(trace)
              ELSE i > 1 => trace[i - 1].ev = "sleep"
        /\ Answered =>
              IF DocumentedMidiReady(response)
              THEN /\ pc = "done" /\ outcome = "returned"
                   /\ result.response = response
              ELSE pc = "done" => Requests = max_attempts
        /\ (pc = "done" /\ Requests = max_attempts /\ Answered) =>
              /\ outcome = "returned"
              /\ result.response = response
        /\ outcome = "raised" => result.msg[1] = "API request failed: "

\* Every one of MaxAttempts attempts brought "Failed: generating midi...";
\* the last response was returned after MaxAttempts - 1 sleeps
C26_Witness ==
    /\ max_attempts = MaxAttempts
    /\ Requests = MaxAttempts
    /\ Sleeps = MaxAttempts - 1
    /\ pc = "done" /\ outcome = "returned"
    /\ response.data.midi_url = <<"Failed", ": generating midi...">>
    /\ result.response = response

\* C27: get_midi returns a response for every max_attempts, 0 included:
\* the only exception it ends with is the SunoAPIError of a failed
\* request.
C27_MidiNeverRaises ==
    pc = "done" =>
        \/ outcome = "returned" /\ result.kind = "response"
        \/ /\ outcome = "raised"
           /\ result.kind = "SunoAPIError"
           /\ result.msg[1] = "API request failed: "


(***************************************************************************)
(* The create command of the CLI (src/tracksmartin.py): submit, then with  *)
(* --wait poll, then with --download fetch the MP3, inside the command's   *)
(* two try blocks.                                                         *)
(***************************************************************************)

\* class SunoAPIError(Exception), class TracksMartinClientError(Exception),
\* and the built-in classes above them
ExceptionBases ==
    [SunoAPIError            |-> "Exception",
     TracksMartinClientError |-> "Exception",
     ValueError              |-> "Exception",
     Exception               |-> "BaseException",
     BaseException           |-> "object"]

\* issubclass(cls, target)
RECURSIVE IsSubclass(_, _)
IsSubclass(cls, target) ==
    \/ cls = target
    \/ cls \in DOMAIN ExceptionBases
          /\ IsSubclass(ExceptionBases[cls], target)

\* `except TracksMartinClientError as e:` applied to a raised exception
Caught(exc) == IsSubclass(exc.kind, "TracksMartinClientError")

\* max_attempts=20, interval=15 of the command's poll
CreateMaxAttempts == 20
CreateInterval == 15

\* clip['audio_url'] of the clip the poll returns
AudioUrls == {<<>>, <<"h", "t", "t", "p">>}

\* What client.poll_until_complete(task_id, max_attempts=20, interval=15)
\* may end with
PollResults ==
    {[outcome |-> "returned", exc |-> NoExc, audio_url |-> u] :
         u \in AudioUrls}
        \cup {[outcome |-> "raised", exc |-> GenerationFailed(state),
                audio_url |-> <<>>] : state \in {"error", "failed"}}
        \cup {[outcome |-> "raised", audio_url |-> <<>>,
               exc |-> PollingTimedOut(CreateMaxAttempts, CreateInterval)]}
        \cup {[outcome |-> "raised", exc |-> make_request(f).exc,
                audio_url |-> <<>>] : f \in Failures(NoResponse, {1})}

\* What client.download_file(url, path) may end with
DownloadResults ==
    {[outcome |-> "returned", exc |-> NoExc]}
        \cup {[outcome |-> "raised",
               exc |-> [kind |-> "SunoAPIError",
                        msg |-> <<"Download failed: ", cause>>]] :
                 cause \in HttpFailures}

\* The options of the command that decide its steps
CreateOptions ==
    [wait : BOOLEAN, download : BOOLEAN, instrumental : BOOLEAN,
     model : {"chirp-v4", "chirp-v5"}]

\* The argument the command passes to create_music
CreateCommandArgs(opts) ==
    [prompt |-> "la la", title |-> "Song", tags |-> None,
     style_weight |-> [given |-> FALSE, v |-> 0],
     weirdness_constraint |-> [given |-> FALSE, v |-> 0],
     negative_tags |-> None, custom_mode |-> TRUE,
     make_instrumental |-> opts.instrumental, mv |-> opts.model]

\* The command goes on to its next step, ends normally, ends in a handler
\* (message printed, sys.exit(1)), or lets the exception out
GoesOn(cmd, step) ==
    [cmd EXCEPT !.pc = step]
EndsNormally(cmd) ==
    [cmd EXCEPT !.pc = "ended", !.end = "ok", !.status = 0]
Raises(cmd, exc, prefix) ==
    IF Caught(exc)
    THEN [cmd EXCEPT !.pc = "ended", !.raised = exc, !.end = "exit",
                     !.status = 1, !.printed = <<prefix>> \o exc.msg]
    ELSE [cmd EXCEPT !.pc = "ended", !.raised = exc, !.end = "uncaught",
                     !.status = 1]

\* The command is started
CreateStart ==
    /\ fn.pc = "idle"
    /\ \E opts \in CreateOptions :
         fn' = [pc |-> "submit", op |-> "create", opts |-> opts,
                raised |-> NoExc, end |-> "none", status |-> 0,
                printed |-> <<>>]
    /\ UNCHANGED <<pollVars, sub, world>>

\* response = client.create_music(...), in the outer try
CreateSubmit ==
    /\ fn.pc = "submit"
    /\ \E reply \in SubmitReplies :
         LET call == create_music(CreateCommandArgs(fn.opts), reply)
         IN  fn' = IF call.outcome = "raised"
                   THEN Raises(fn, call.exc, "Error: ")
                   ELSE IF fn.opts.wait THEN GoesOn(fn, "poll")
                   ELSE EndsNormally(fn)
    /\ UNCHANGED <<pollVars, sub, world>>

\* clip = client.poll_until_complete(...), in the inner try
CreatePoll ==
    /\ fn.pc = "poll"
    /\ \E polled \in PollResults :
         fn' = IF polled.outcome = "raised"
               THEN Raises(fn, polled.exc, "Generation failed: ")
               ELSE IF fn.opts.download /\ StrTruthy(polled.audio_url)
               THEN GoesOn(fn, "download")
               ELSE EndsNormally(fn)
    /\ UNCHANGED <<pollVars, sub, world>>

\* client.download_file(clip['audio_url'], mp3_path), in the inner try
CreateDownload ==
    /\ fn.pc = "download"
    /\ \E fetched \in DownloadResults :
         fn' = IF fetched.outcome = "raised"
               THEN Raises(fn, fetched.exc, "Generation failed: ")
               ELSE EndsNormally(fn)
    /\ UNCHANGED <<pollVars, sub, world>>

InitCli == InitSubmit
NextCli == CreateStart \/ CreateSubmit \/ CreatePoll \/ CreateDownload
CliSpec == InitCli /\ [][NextCli]_vars

(***************************************************************************)
(* Claims about the CLI, under CliSpec.                                    *)
(***************************************************************************)

\* C28: an error the client raises in a command (the SunoAPIError of a
\* failed submission, of a failed job, of a poll timeout, of a transport
\* failure or of a failed download) ends the command in its handler, which
\* prints the message and exits with status 1; it does not leave the
\* command uncaught.
C28_ClientErrorsAreCaught ==
    (fn.pc = "ended" /\ fn.raised.kind = "SunoAPIError") =>
        /\ fn.end = "exit"
        /\ fn.status = 1
        /\ fn.printed # <<>>
        /\ Tail(fn.printed) = fn.raised.msg

(***************************************************************************)
(* Claims about get_genre_description, under GenreSpec.                    *)
(***************************************************************************)

GenreDescriptionCalled == fn.pc = "done" /\ fn.op = "get_genre_description"

\* The description is that of a genre that was found: the style notes and
\* the structure of a catalog template follow the name
ReportsFound(description) ==
    \E template \in Range(GENRE_TEMPLATES) :
        description.after = <<Text("\n"), template.style_notes,
                              Text("\n\nStructure: "),
                              Text(template.structure)>>

\* C29: for every name, get_genre_description reports the genre as found
\* (its return value carries the style notes and the structure of a catalog
\* template) exactly when get_genre_info returns a template of the catalog
\* for that name rather than the generic one; alternative names such as
\* "rap" and "edm" included.
C29_DescriptionAgreesWithInfo ==
    GenreDescriptionCalled =>
        (ReportsFound(fn.ret)
            <=> get_genre_info(fn.args.genre) \in Range(GENRE_TEMPLATES))

(***************************************************************************)
(* Idempotence of sanitize_filename, under NameSpec.                       *)
(***************************************************************************)

\* C30: sanitize_filename is idempotent: called on its own result it
\* returns that result unchanged, sanitize_filename(sanitize_filename(s))
\* = sanitize_filename(s), for every string s.
C30_SanitizeIsIdempotent ==
    (fn.pc = "again" /\ fn.op = "sanitize_filename") =>
        /\ fn.ret = fn.args.name
        /\ fn.ret = sanitize_filename(sanitize_filename(fn.first))

\* "/ a" was sanitized to "a" (the "/" dropped, then the space that had
\* become the first character stripped), and "a" sanitized again
C30_Witness ==
    /\ fn.pc = "again" /\ fn.op = "sanitize_filename"
    /\ fn.first = <<"/", " ", "a">>
    /\ fn.args.name = <<"a">>
    /\ fn.args.name # fn.first
    /\ fn.ret = <<"a">>

====
